---------------------------- MODULE Spec2Model ----------------------------
(***************************************************************************)
(* A model of the EXO interpreter (src/main.py).                           *)
(*                                                                         *)
(* Source text is modelled at token level: a line is a sequence of tokens  *)
(* (strings), a program a sequence of lines.  A token is what the source   *)
(* separates by blanks or punctuation; the string tests of the source      *)
(* (startswith, in, find, split) are translated to the same tests on       *)
(* tokens.  The Arabic keywords, which the module's character set cannot   *)
(* write, are the tokens "ar_..." (ar_let for the Arabic `let`, ...).      *)
(*                                                                         *)
(* The Python functions are operators of the same names, computed the way  *)
(* the source computes them.  Every operator that can change the           *)
(* interpreter's globals takes the interpreter state `st` (a record of the *)
(* module-level globals of src/main.py, plus `err`, the ExoError in        *)
(* flight) and returns a record [st, v]: the state after, and the value.   *)
(***************************************************************************)
EXTENDS Integers, Sequences, FiniteSets, TLC

VARIABLES
    scopes,         \* the Scope objects, by identity (index); scopes[1] is global_scope
    current_scope,  \* identity of the current Scope
    functions,      \* name -> (body, args_names, def_scope)
    modules,        \* path -> [exports]
    output,         \* the printed lines
    web_routes,     \* path -> body
    call_stack,     \* frames "name(args)"
    err,            \* "" or the message of the ExoError that ended the run
    files,          \* the file system: file name -> the lines of the file
    code_lines,     \* the lines the top-level run executes
    file,           \* the file tag the top-level run was given: the entry file's name
    i,              \* the line index (1-based) of the top-level run, or of the
                    \* innermost run while pc = "body"
    pc,             \* "run" | "returned" | "raised", and "body" | "unwinding"
                    \* where calls are followed step by step
    result,         \* the value the top-level run returned
    recursion_limit,\* sys.getrecursionlimit() of the Python that runs the interpreter
    response        \* what do_GET last sent: [status, body], or NoResponse

vars == <<scopes, current_scope, functions, modules, output, web_routes,
          call_stack, err, files, code_lines, file, i, pc, result,
          recursion_limit, response>>

-----------------------------------------------------------------------------
(* Values.  One record shape for every Python value the model covers:      *)
(* t is the Python type name, n/d the number (a float is the rational n/d  *)
(* in lowest terms), s the text of a str, items the elements of a list or  *)
(* the (key, value) pairs of a dict.                                       *)

V(t, n, d, s, items) == [t |-> t, n |-> n, d |-> d, s |-> s, items |-> items]

Null == V("NoneType", 0, 1, "", <<>>)
BoolV(b) == V("bool", IF b THEN 1 ELSE 0, 1, "", <<>>)
IntV(k) == V("int", k, 1, "", <<>>)
StrV(s) == V("str", 0, 1, s, <<>>)
ListV(xs) == V("list", 0, 1, "", xs)
DictV(pairs) == V("dict", 0, 1, "", pairs)

Abs(k) == IF k < 0 THEN 0 - k ELSE k

RECURSIVE GCD(_, _)
GCD(a, b) == IF b = 0 THEN a ELSE GCD(b, a % b)

\* a / b rounded towards minus infinity (Python's //), b # 0
FloorDiv(a, b) ==
    LET q == Abs(a) \div Abs(b)
        exact == Abs(a) % Abs(b) = 0
    IN  IF (a >= 0) = (b > 0) THEN q
        ELSE IF exact THEN 0 - q ELSE 0 - q - 1

FloatV(n, d) ==
    LET g == GCD(Abs(n), Abs(d))
        sgn == IF d < 0 THEN 0 - 1 ELSE 1
    IN  V("float", sgn * (n \div g), sgn * (d \div g), "", <<>>)

IsNum(v) == v.t \in {"bool", "int", "float"}

\* Python truth value (bool(v))
Truthy(v) ==
    CASE v.t = "NoneType" -> FALSE
      [] IsNum(v) -> v.n # 0
      [] v.t = "str" -> v.s # ""
      [] OTHER -> v.items # <<>>

\* Python ==
RECURSIVE PyEq(_, _)
PyEq(a, b) ==
    CASE IsNum(a) /\ IsNum(b) -> a.n * b.d = b.n * a.d
      [] a.t # b.t -> FALSE
      [] a.t = "str" -> a.s = b.s
      [] a.t = "NoneType" -> TRUE
      [] a.t = "list" ->
            /\ Len(a.items) = Len(b.items)
            /\ \A k \in 1..Len(a.items) : PyEq(a.items[k], b.items[k])
      [] OTHER -> a = b

\* the digits of r / d after the decimal point, r < d, at most `left` of them
RECURSIVE Digits(_, _, _)
Digits(r, d, left) ==
    IF r = 0 \/ left = 0 THEN ""
    ELSE ToString((10 * r) \div d) \o Digits((10 * r) % d, d, left - 1)

\* Python str(v) and repr(v)
RECURSIVE PyStr(_), PyRepr(_), JoinRepr(_, _)
PyStr(v) ==
    CASE v.t = "NoneType" -> "None"
      [] v.t = "bool" -> IF v.n = 1 THEN "True" ELSE "False"
      [] v.t = "int" -> ToString(v.n)
      [] v.t = "float" ->
            LET a == Abs(v.n)
                frac == Digits(a % v.d, v.d, 16)
            IN  (IF v.n < 0 THEN "-" ELSE "") \o ToString(a \div v.d) \o "."
                \o (IF frac = "" THEN "0" ELSE frac)
      [] v.t = "str" -> v.s
      [] v.t = "list" -> "[" \o JoinRepr(v.items, 1) \o "]"
      [] OTHER -> "{...}"
PyRepr(v) == IF v.t = "str" THEN "'" \o v.s \o "'" ELSE PyStr(v)
JoinRepr(xs, k) ==
    IF k > Len(xs) THEN ""
    ELSE PyRepr(xs[k]) \o (IF k < Len(xs) THEN ", " ELSE "") \o JoinRepr(xs, k + 1)

-----------------------------------------------------------------------------
(* Tokens.                                                                 *)

DeclKw == {"let", "ar_let", "var", "const"}
ReturnKw == {"return", "ar_return"}
BreakKw == {"break", "ar_break"}
ContinueKw == {"continue", "ar_continue"}
RouteKw == {"route", "ar_route"}
FuncKw == {"func", "ar_func", "function"}
IfKw == {"if", "ar_if"}
ElseKw == {"else", "ar_else"}
WhileKw == {"while", "ar_while"}
ForKw == {"for", "ar_for"}
EndKw == {"end", "ar_end"}
InKw == {"in", "ar_in"}
\* the openers every block scan counts (src/main.py:888, 915, 939, 971, 994, 1033)
BlockOpeners == RouteKw \cup FuncKw \cup IfKw \cup WhileKw \cup ForKw

TrueLits == {"True", "ar_true", "true"}
FalseLits == {"False", "ar_false", "false"}
NullLits == {"null", "ar_null", "None"}

\* the literal tokens of the model's programs, and what they denote
IntLits == {"0", "1", "2", "3", "4", "5", "6", "7", "8", "9", "10"}
IntVal(tok) ==
    CASE tok = "0" -> 0 [] tok = "1" -> 1 [] tok = "2" -> 2 [] tok = "3" -> 3
      [] tok = "4" -> 4 [] tok = "5" -> 5 [] tok = "6" -> 6 [] tok = "7" -> 7
      [] tok = "8" -> 8 [] tok = "9" -> 9 [] tok = "10" -> 10
StrLits == {"'after'", "'break'", "'continue'", "''", "'a'", "'b'", "'x'", "'y'",
            "'A'", "'B'", "'C'", "'./A'", "'A.exo'"}
StrText(tok) ==
    CASE tok = "'after'" -> "after" [] tok = "'break'" -> "break"
      [] tok = "'continue'" -> "continue" [] tok = "''" -> ""
      [] tok = "'a'" -> "a" [] tok = "'b'" -> "b"
      [] tok = "'x'" -> "x" [] tok = "'y'" -> "y"
      [] tok = "'A'" -> "A" [] tok = "'B'" -> "B" [] tok = "'C'" -> "C"
      [] tok = "'./A'" -> "./A" [] tok = "'A.exo'" -> "A.exo"

Openers == {"(", "[", "{"}
Closers == {")", "]", "}"}
\* the tokens that hold the character `=`
EqToks == {"=", "==", "!=", ">=", "<="}
Punct == Openers \cup Closers \cup EqToks \cup
         {",", ".", ":", "#", "+", "-", "*", "/", "%", "^", ">", "<", "!", "||", "&&"}

\* str.isidentifier() of a token
isidentifier(tok) == tok \notin IntLits \cup StrLits \cup Punct

\* the number of characters of a keyword as the source text spells it
KwChars(tok) ==
    CASE tok = "return" -> 6 [] tok = "ar_return" -> 4
      [] tok = "if" -> 2 [] tok = "ar_if" -> 3
      [] tok = "else" -> 4 [] tok = "ar_else" -> 4
      [] tok = "while" -> 5 [] tok = "ar_while" -> 5
      [] tok = "for" -> 3 [] tok = "ar_for" -> 3
      [] tok = "route" -> 5 [] tok = "ar_route" -> 4
      [] tok = "not" -> 3 [] tok = "ar_not" -> 3
      [] OTHER -> 1

\* a token without its first character; "" when it has only one
TokTail(tok) ==
    CASE tok \in {"0", "1", "2", "3", "4", "5", "6", "7", "8", "9"} -> ""
      [] tok \in Punct \ {"==", "!=", ">=", "<=", "||", "&&"} -> ""
      [] tok \in {"x", "y", "z", "v", "w", "n", "k", "f", "g", "p", "a", "b", "c"} -> ""
      [] tok = "10" -> "0"
      [] tok \in {"==", "!=", ">=", "<="} -> "="
      [] tok = "true" -> "rue" [] tok = "false" -> "alse"
      [] OTHER -> "~" \o tok

\* text[k:] of the text of `toks`, for k <= 1
DropChars(toks, k) ==
    IF k <= 0 \/ toks = <<>> THEN toks
    ELSE IF TokTail(toks[1]) = "" THEN Tail(toks)
    ELSE <<TokTail(toks[1])>> \o Tail(toks)

\* line[prefix_len:].strip() of a line that starts with `nkw` keyword tokens,
\* each followed by one blank
AfterPrefix(line, nkw, prefix_len) ==
    LET spelled == IF nkw = 1 THEN KwChars(line[1]) + 1
                   ELSE KwChars(line[1]) + 1 + KwChars(line[2]) + 1
    IN  DropChars(SubSeq(line, nkw + 1, Len(line)), prefix_len - spelled)

\* line.startswith(kw + ' ') for some kw of kws: a stripped line that starts
\* with the keyword and a blank has a second token
startswith(line, kws) == Len(line) >= 2 /\ line[1] \in kws

Contains(line, toks) == \E k \in 1..Len(line) : line[k] \in toks

\* str.find: the first index of a token of toks, 0 when there is none
Find(line, toks) ==
    IF Contains(line, toks)
    THEN CHOOSE k \in 1..Len(line) :
            line[k] \in toks /\ \A j \in 1..(k - 1) : line[j] \notin toks
    ELSE 0

\* str.rfind
RFind(line, toks) ==
    IF Contains(line, toks)
    THEN CHOOSE k \in 1..Len(line) :
            line[k] \in toks /\ \A j \in (k + 1)..Len(line) : line[j] \notin toks
    ELSE 0

\* expr.split("#")[0]
StripComment(line) ==
    IF Contains(line, {"#"}) THEN SubSeq(line, 1, Find(line, {"#"}) - 1) ELSE line

-----------------------------------------------------------------------------
(* class Scope (src/main.py:25-66).  A Scope object is an index of the     *)
(* sequence `scopes`; parent 0 is None.                                    *)

EmptyMap == [k \in {} |-> Null]
Put(m, k, v) == [x \in DOMAIN m \cup {k} |-> IF x = k THEN v ELSE m[x]]

Scope(parent, name) == [parent |-> parent, name |-> name, vars |-> EmptyMap]

RECURSIVE Scope_exists(_, _, _)
Scope_exists(sc, s, name) ==
    IF name \in DOMAIN sc[s].vars THEN TRUE
    ELSE IF sc[s].parent # 0 THEN Scope_exists(sc, sc[s].parent, name)
    ELSE FALSE

\* [found, v]: found = FALSE is the KeyError
RECURSIVE Scope_get(_, _, _)
Scope_get(sc, s, name) ==
    IF name \in DOMAIN sc[s].vars THEN [found |-> TRUE, v |-> sc[s].vars[name]]
    ELSE IF sc[s].parent # 0 THEN Scope_get(sc, sc[s].parent, name)
    ELSE [found |-> FALSE, v |-> Null]

RECURSIVE Scope_get_all_names(_, _)
Scope_get_all_names(sc, s) ==
    DOMAIN sc[s].vars \cup
        (IF sc[s].parent # 0 THEN Scope_get_all_names(sc, sc[s].parent) ELSE {})

\* Scope_set_walk with the loop left out: the write lands in the scope the
\* assignment runs in
Scope_set_in_self(sc, self, scope, name, value) ==
    [sc EXCEPT ![self].vars = Put(@, name, value)]

\* the while loop of Scope.set (src/main.py:45-51)
RECURSIVE Scope_set_walk(_, _, _, _, _)
Scope_set_walk(sc, self, scope, name, value) ==
    IF scope = 0 THEN [sc EXCEPT ![self].vars = Put(@, name, value)]
    ELSE IF name \in DOMAIN sc[scope].vars
    THEN [sc EXCEPT ![scope].vars = Put(@, name, value)]
    ELSE Scope_set_walk(sc, self, sc[scope].parent, name, value)

\* Scope_set with `local` ignored: a declaration walks the chain like an
\* assignment
Scope_set_never_local(sc, s, name, value, local) ==
    IF name \notin Scope_get_all_names(sc, s)
    THEN [sc EXCEPT ![s].vars = Put(@, name, value)]
    ELSE Scope_set_walk(sc, s, s, name, value)

\* Scope.set (src/main.py:40-51)
Scope_set(sc, s, name, value, local) ==
    IF local \/ name \notin Scope_get_all_names(sc, s)
    THEN [sc EXCEPT ![s].vars = Put(@, name, value)]
    ELSE Scope_set_walk(sc, s, s, name, value)

-----------------------------------------------------------------------------
(* The interpreter state the operators thread, and results.                *)

R(st, v) == [st |-> st, v |-> v]
\* error(msg) (src/main.py:108-110): the first ExoError raised stays the one in flight
error(st, msg) == R([st EXCEPT !.err = IF @ = "" THEN msg ELSE @], Null)
Failed(r) == r.st.err # ""

\* The exports map of a module is one dict object that import_module returns
\* again and again (src/main.py:790, 810): the value V("dict", _, _, path, _)
\* with a path is that object, and Deref reads what it holds.
Deref(v, st) == IF v.t = "dict" /\ v.s # "" THEN st.modules[v.s].exports ELSE v

-----------------------------------------------------------------------------
(* split_by_op (src/main.py:131-179).  A string literal is one token, so   *)
(* the in_string state of the source is the token boundary here.           *)

\* the separators the source writes with a blank on each side
SpacedOps == {"or", "ar_or", "||", "and", "ar_and", "&&"}

\* expr[i:i+len(op)] == op
OpAt(expr, k, op) ==
    /\ expr[k] = op
    /\ op \in SpacedOps => (k > 1 /\ k < Len(expr))

\* `depth` after the scan has read the first k tokens: the brackets opened
\* less the brackets closed (src/main.py:153-156)
Depth(toks, k) ==
    Cardinality({j \in 1..k : toks[j] \in Openers})
    - Cardinality({j \in 1..k : toks[j] \in Closers})

\* what the scan appends to `parts`: the non-empty runs of tokens between two
\* cuts, in order; the run after the last cut is one of them when `last`
Segments(toks, cuts, last) ==
    LET ends == cuts \cup (IF last THEN {Len(toks) + 1} ELSE {})
        before(e) == CHOOSE a \in cuts \cup {0} :
                         a < e /\ \A c \in cuts : c < e => c <= a
        full == {e \in ends : before(e) < e - 1}
        nth(n) == CHOOSE e \in full : Cardinality({c \in full : c < e}) = n - 1
    IN  [n \in 1..Cardinality(full) |-> SubSeq(toks, before(nth(n)) + 1, nth(n) - 1)]

\* the scan cuts at each occurrence of op at depth 0, and `current` after the
\* last one is a part too (src/main.py:138-179)
split_parts(expr, parts) == IF Len(parts) > 1 THEN parts ELSE <<expr>>
split_by_op(expr, op) ==
    split_parts(expr, Segments(expr, {k \in 1..Len(expr) :
                                         Depth(expr, k) = 0 /\ OpAt(expr, k, op)}, TRUE))

\* the comma scan of eval_base and parse_args (src/main.py:312-332, 349-369,
\* 459-479) over `inner + ','`: the non-empty pieces that end at a comma at
\* depth 0
comma_scan(toks) ==
    Segments(toks, {k \in 1..Len(toks) : toks[k] = "," /\ Depth(toks, k) = 0}, FALSE)

\* str.split(sep) on tokens: the pieces between the tokens of seps, empty ones kept
RECURSIVE SplitAll(_, _)
SplitAll(toks, seps) ==
    IF ~Contains(toks, seps) THEN <<toks>>
    ELSE LET k == Find(toks, seps)
         IN  <<SubSeq(toks, 1, k - 1)>> \o SplitAll(SubSeq(toks, k + 1, Len(toks)), seps)

\* the text of a token sequence
RECURSIVE Text(_)
Text(toks) ==
    IF toks = <<>> THEN ""
    ELSE IF Len(toks) = 1 THEN toks[1]
    ELSE toks[1] \o " " \o Text(Tail(toks))

\* the parentheses' depth after the first k tokens (src/main.py:190-194)
RECURSIVE ParenDepth(_, _)
ParenDepth(expr, k) ==
    IF k = 0 THEN 0
    ELSE ParenDepth(expr, k - 1)
         + (IF expr[k] = "(" THEN 1 ELSE IF expr[k] = ")" THEN 0 - 1 ELSE 0)

\* the while loop of eval_arith that removes the outer parentheses
\* (src/main.py:187-201)
RECURSIVE strip_outer_parens(_)
strip_outer_parens(expr) ==
    IF Len(expr) >= 1 /\ expr[1] = "(" /\ expr[Len(expr)] = ")"
    THEN IF \A k \in 1..(Len(expr) - 1) : ParenDepth(expr, k) # 0
         THEN strip_outer_parens(SubSeq(expr, 2, Len(expr) - 1))
         ELSE expr
    ELSE expr

-----------------------------------------------------------------------------
(* Python's operators on the values of the model.  [ok, v]: ok = FALSE is  *)
(* a Python exception (TypeError, ZeroDivisionError).  What Python defines *)
(* and the model does not (the order of two str, str * int, a float        *)
(* exponent) is `Unmodelled`.                                              *)

Ok(v) == [ok |-> TRUE, v |-> v, msg |-> ""]
PyExc(msg) == [ok |-> FALSE, v |-> Null, msg |-> msg]
Unmodelled == PyExc("unmodelled")

NumResult(a, b, n, d) ==
    IF a.t = "float" \/ b.t = "float" THEN FloatV(n, d) ELSE IntV(n)

RECURSIVE IntPow(_, _)
IntPow(a, k) == IF k = 0 THEN 1 ELSE a * IntPow(a, k - 1)

PyAdd(a, b) ==
    CASE IsNum(a) /\ IsNum(b) -> Ok(NumResult(a, b, a.n * b.d + b.n * a.d, a.d * b.d))
      [] a.t = "str" /\ b.t = "str" -> Ok(StrV(a.s \o b.s))
      [] a.t = "list" /\ b.t = "list" -> Ok(ListV(a.items \o b.items))
      [] OTHER -> PyExc("TypeError")
PySub(a, b) ==
    IF IsNum(a) /\ IsNum(b)
    THEN Ok(NumResult(a, b, a.n * b.d - b.n * a.d, a.d * b.d))
    ELSE PyExc("TypeError")
PyMul(a, b) ==
    CASE IsNum(a) /\ IsNum(b) -> Ok(NumResult(a, b, a.n * b.n, a.d * b.d))
      [] a.t \in {"NoneType", "dict"} \/ b.t \in {"NoneType", "dict"} -> PyExc("TypeError")
      [] OTHER -> Unmodelled
\* result /= val, val # 0
PyDiv(a, b) ==
    IF IsNum(a) /\ IsNum(b) THEN Ok(FloatV(a.n * b.d, a.d * b.n))
    ELSE PyExc("TypeError")
PyMod(a, b) ==
    CASE IsNum(a) /\ IsNum(b) /\ b.n = 0 -> PyExc("ZeroDivisionError")
      [] IsNum(a) /\ IsNum(b) ->
            LET q == FloorDiv(a.n * b.d, a.d * b.n)
            IN  Ok(NumResult(a, b, a.n * b.d - q * b.n * a.d, a.d * b.d))
      [] a.t = "str" -> Unmodelled
      [] OTHER -> PyExc("TypeError")
PyPow(a, b) ==
    CASE IsNum(a) /\ IsNum(b) /\ b.d = 1 /\ b.n >= 0 ->
            Ok(NumResult(a, b, IntPow(a.n, b.n), IntPow(a.d, b.n)))
      [] IsNum(a) /\ IsNum(b) /\ b.d = 1 /\ a.n = 0 -> PyExc("ZeroDivisionError")
      [] IsNum(a) /\ IsNum(b) /\ b.d = 1 ->
            Ok(FloatV(IntPow(a.d, 0 - b.n), IntPow(a.n, 0 - b.n)))
      [] IsNum(a) /\ IsNum(b) -> Unmodelled
      [] OTHER -> PyExc("TypeError")
\* the lambdas of `ops` (src/main.py:226-233)
PyCompare(op, a, b) ==
    CASE op = "==" -> Ok(BoolV(PyEq(a, b)))
      [] op = "!=" -> Ok(BoolV(~PyEq(a, b)))
      [] IsNum(a) /\ IsNum(b) ->
            LET l == a.n * b.d
                r == b.n * a.d
            IN  Ok(BoolV(CASE op = ">=" -> l >= r [] op = "<=" -> l <= r
                           [] op = ">" -> l > r [] op = "<" -> l < r))
      [] a.t = b.t /\ a.t \in {"str", "list"} -> Unmodelled
      [] OTHER -> PyExc("TypeError")

\* var[idx] (src/main.py:399): kind is "ok" or the Python exception
PyIndex(var, idx) ==
    CASE var.t = "list" /\ idx.t \in {"int", "bool"} ->
            LET n == Len(var.items)
                k == IF idx.n < 0 THEN idx.n + n ELSE idx.n
            IN  IF k >= 0 /\ k < n THEN [kind |-> "ok", v |-> var.items[k + 1]]
                ELSE [kind |-> "IndexError", v |-> Null]
      [] var.t = "dict" ->
            IF \E k \in 1..Len(var.items) : PyEq(var.items[k][1], idx)
            THEN [kind |-> "ok",
                  v |-> var.items[CHOOSE k \in 1..Len(var.items) :
                                      PyEq(var.items[k][1], idx)][2]]
            ELSE [kind |-> "KeyError", v |-> Null]
      [] var.t = "str" /\ idx.t \in {"int", "bool"} -> [kind |-> "unmodelled", v |-> Null]
      [] OTHER -> [kind |-> "TypeError", v |-> Null]

\* obj[key] = value on a list or dict value (src/main.py:848, 1068, 1078)
PyStore(var, idx, value) ==
    CASE var.t = "list" /\ idx.t \in {"int", "bool"} ->
            LET n == Len(var.items)
                k == IF idx.n < 0 THEN idx.n + n ELSE idx.n
            IN  IF k >= 0 /\ k < n
                THEN [kind |-> "ok", v |-> ListV([var.items EXCEPT ![k + 1] = value])]
                ELSE [kind |-> "IndexError", v |-> Null]
      [] var.t = "dict" ->
            IF \E k \in 1..Len(var.items) : PyEq(var.items[k][1], idx)
            THEN [kind |-> "ok",
                  v |-> DictV([k \in 1..Len(var.items) |->
                                 IF PyEq(var.items[k][1], idx)
                                 THEN <<var.items[k][1], value>> ELSE var.items[k]])]
            ELSE [kind |-> "ok", v |-> DictV(Append(var.items, <<idx, value>>))]
      [] OTHER -> [kind |-> "TypeError", v |-> Null]

\* list(range(a, b, step)), step # 0
RECURSIVE PyRange(_, _, _)
PyRange(a, b, step) ==
    IF (step > 0 /\ a >= b) \/ (step < 0 /\ a <= b) THEN <<>>
    ELSE <<IntV(a)>> \o PyRange(a + step, b, step)

\* int(v) of a number: towards zero
PyInt(v) == IF v.n >= 0 THEN v.n \div v.d ELSE 0 - ((0 - v.n) \div v.d)

-----------------------------------------------------------------------------
(* The expression evaluator (src/main.py:182-431, 448-481, 758-773).       *)

\* `for op in ops: parts = split_by_op(expr, op); if len(parts) > 1` (or, with
\* two, `== 2`): the first operator that splits, and the parts; op is "" when
\* none does
split_first(expr, ops, hits) ==
    IF hits = {} THEN [op |-> "", parts |-> <<>>]
    ELSE [op |-> ops[CHOOSE k \in hits : \A j \in hits : k <= j],
          parts |-> split_by_op(expr, ops[CHOOSE k \in hits : \A j \in hits : k <= j])]

first_split(expr, ops, two) ==
    split_first(expr, ops,
                {k \in 1..Len(ops) :
                    Len(split_by_op(expr, ops[k])) \in (IF two THEN {2} ELSE 2..Len(expr))})

\* get_builtin_functions (src/main.py:434-446)
get_builtin_functions ==
    {"print", "ar_print", "input", "ar_input", "len", "ar_len", "type", "ar_type",
     "str", "ar_str", "int", "ar_int", "float", "ar_float", "sqrt", "ar_sqrt",
     "pow", "ar_pow", "random", "ar_random", "range", "ar_range", "push", "ar_push",
     "pop", "ar_pop", "readFile", "ar_readFile", "writeFile", "ar_writeFile",
     "fileExists", "ar_fileExists", "deleteFile", "ar_deleteFile", "sleep", "ar_sleep",
     "json", "ar_json", "parseJson", "ar_parseJson", "html", "import", "ar_import",
     "export", "ar_export", "keys", "ar_keys", "values", "ar_values", "abs", "ar_abs",
     "round", "ar_round", "floor", "ar_floor", "ceil", "ar_ceil", "max", "ar_max",
     "min", "ar_min", "sum", "ar_sum", "join", "ar_join", "split", "ar_split"}

\* ', '.join(str(a)[:20] for a in args) and " ".join(str(a) for a in args)
RECURSIVE JoinStr(_, _, _)
JoinStr(args, k, sep) ==
    IF k > Len(args) THEN ""
    ELSE PyStr(args[k]) \o (IF k < Len(args) THEN sep ELSE "") \o JoinStr(args, k + 1, sep)

MAX_RECURSION_DEPTH == 1000

(* The functions below call each other (eval_arith -> eval_base ->        *)
(* call_function -> run -> evaluate -> eval_arith ...): Call(name, args)   *)
(* is the call of the function `name` with the arguments `args`, used      *)
(* where a function is called that is defined further down.                *)
RECURSIVE Call(_, _)
RECURSIVE eval_props(_, _, _, _)

\* any(eval_arith(p) for p in parts) (src/main.py:207)
eval_any(parts, k, f, st) ==
    IF k > Len(parts) THEN R(st, BoolV(FALSE))
    ELSE LET r == Call("eval_arith", <<parts[k], f, st>>)
         IN  IF Failed(r) THEN r
             ELSE IF Truthy(r.v) THEN R(r.st, BoolV(TRUE))
             ELSE Call("eval_any", <<parts, k + 1, f, r.st>>)

\* eval_all with every operand evaluated before the values are combined
eval_all_eager(parts, k, f, st) ==
    IF k > Len(parts) THEN R(st, BoolV(TRUE))
    ELSE LET r == Call("eval_arith", <<parts[k], f, st>>)
             rest == Call("eval_all", <<parts, k + 1, f, r.st>>)
         IN  IF Failed(r) THEN r
             ELSE IF Failed(rest) THEN rest
             ELSE R(rest.st, BoolV(Truthy(r.v) /\ Truthy(rest.v)))

\* all(eval_arith(p) for p in parts) (src/main.py:213)
eval_all(parts, k, f, st) ==
    IF k > Len(parts) THEN R(st, BoolV(TRUE))
    ELSE LET r == Call("eval_arith", <<parts[k], f, st>>)
         IN  IF Failed(r) THEN r
             ELSE IF ~Truthy(r.v) THEN R(r.st, BoolV(FALSE))
             ELSE Call("eval_all", <<parts, k + 1, f, r.st>>)

\* `result = result <op> eval_arith(parts[i])` (src/main.py:247-249, 257-266)
PyBin(op, acc, v) ==
    CASE op = "+" -> PyAdd(acc, v)
      [] op = "-" -> PySub(acc, v)
      [] op = "*" -> PyMul(acc, v)
      [] op = "/" -> PyDiv(acc, v)
      [] op = "%" -> PyMod(acc, v)

\* the next round of the loop, x the outcome of the operation of this one
fold_next(parts, k, op, x, f, st) ==
    IF ~x.ok THEN error(st, "Evaluation error: " \o x.msg)
    ELSE Call("eval_fold", <<parts, k + 1, op, x.v, f, st>>)

\* the loops `for i in range(1, len(parts))` (src/main.py:247-249, 257-266)
eval_fold(parts, k, op, acc, f, st) ==
    IF k > Len(parts) THEN R(st, acc)
    ELSE LET r == Call("eval_arith", <<parts[k], f, st>>)
         IN  IF Failed(r) THEN r
             ELSE IF op = "/" /\ PyEq(r.v, IntV(0)) THEN error(r.st, "Division by zero")
             ELSE fold_next(parts, k, op, PyBin(op, acc, r.v), f, r.st)

pow_next(parts, k, x, f, st) ==
    IF ~x.ok THEN error(st, "Evaluation error: " \o x.msg)
    ELSE Call("eval_pow", <<parts, k - 1, x.v, f, st>>)

\* the loop `for i in range(len(parts) - 2, -1, -1)` (src/main.py:274-275)
eval_pow(parts, k, acc, f, st) ==
    IF k < 1 THEN R(st, acc)
    ELSE LET r == Call("eval_arith", <<parts[k], f, st>>)
         IN  IF Failed(r) THEN r ELSE pow_next(parts, k, PyPow(r.v, acc), f, r.st)

\* `return ops[op](left, right)` of a comparison (src/main.py:235-240), x its outcome
compared(x, st) ==
    IF ~x.ok THEN error(st, "Evaluation error: " \o x.msg) ELSE R(st, x.v)

\* `right = eval_arith(parts[1])` and the comparison, left already evaluated
compare_right(op, left, right) ==
    IF Failed(right) THEN right ELSE compared(PyCompare(op, left.v, right.v), right.st)

\* `left = eval_arith(parts[0], ln, file)` (src/main.py:238)
compare(op, left, right_expr, f) ==
    IF Failed(left) THEN left
    ELSE compare_right(op, left, Call("eval_arith", <<right_expr, f, left.st>>))

\* parse_args (src/main.py:448-481): the values of the arguments, a sequence
eval_each(pieces, k, acc, f, st) ==
    LET r == Call("evaluate", <<pieces[k], f, st>>)
    IN  CASE k > Len(pieces) -> R(st, acc)
          [] r.st.err # "" -> r
          [] OTHER -> Call("eval_each", <<pieces, k + 1, Append(acc, r.v), f, r.st>>)

parse_args(args_str, f, st) ==
    CASE args_str = <<>> -> R(st, <<>>)
      [] OTHER -> Call("eval_each", <<comma_scan(Append(args_str, ",")),
                                      1, <<>>, f, st>>)

\* the loop `for pair in pairs` of the object literal (src/main.py:371-377)
eval_pairs(pairs, k, obj, f, st) ==
    IF k > Len(pairs) THEN R(st, obj)
    ELSE IF ~Contains(pairs[k], {":"}) THEN Call("eval_pairs", <<pairs, k + 1, obj, f, st>>)
    ELSE LET c == Find(pairs[k], {":"})
             key == Call("evaluate", <<SubSeq(pairs[k], 1, c - 1), f, st>>)
             value == Call("evaluate", <<SubSeq(pairs[k], c + 1, Len(pairs[k])), f, key.st>>)
             x == PyStore(obj, key.v, value.v)
         IN  IF Failed(key) THEN key
             ELSE IF Failed(value) THEN value
             ELSE IF key.v.t \in {"list", "dict"}
             THEN error(value.st, "Evaluation error: TypeError")
             ELSE Call("eval_pairs", <<pairs, k + 1, x.v, f, value.st>>)

\* the loop `for part in parts[1:]` of the property access (src/main.py:410-417)
eval_props(parts, k, obj, st) ==
    IF k > Len(parts) THEN R(st, obj)
    ELSE IF obj.t = "dict"
    THEN LET x == PyIndex(Deref(obj, st), StrV(Text(parts[k])))
         IN  IF x.kind # "ok" THEN error(st, "Key not found")
             ELSE eval_props(parts, k + 1, x.v, st)
    ELSE error(st, "Cannot access")

-----------------------------------------------------------------------------
(* call_function (src/main.py:483-755).                                    *)

\* the built-ins of the elif chain the model does not compute
UnmodelledBuiltins ==
    get_builtin_functions \
        {"print", "ar_print", "len", "ar_len", "type", "ar_type", "str", "ar_str",
         "int", "ar_int", "abs", "ar_abs", "range", "ar_range", "keys", "ar_keys",
         "values", "ar_values", "html", "import", "ar_import", "export", "ar_export"}

\* func_scope with the caller's scope for parent: dynamic scoping
func_scope_of_caller(name, func, st) == Scope(st.current_scope, "func:" \o name)

\* `func_scope = Scope(parent=def_scope, name=f"func:{name}")` (src/main.py:734)
func_scope(name, func, st) == Scope(func.def_scope, "func:" \o name)

\* call_stack.append(f"{name}(...)") (src/main.py:728)
call_pushed(name, args, st) ==
    [st EXCEPT !.call_stack = Append(@, name \o "(" \o JoinStr(args, 1, ", ") \o ")")]

\* the fresh scope with the parameters bound, made the current scope
\* (src/main.py:734-743), pushed being the state with the frame on the stack
call_bound(name, args, func, st, pushed) ==
    [pushed EXCEPT
        !.scopes = Append(@,
            [func_scope(name, func, st) EXCEPT !.vars =
                [a \in {func.args[k] : k \in 1..Len(func.args)} |->
                    LET last == CHOOSE k \in 1..Len(func.args) :
                            /\ func.args[k] = a
                            /\ \A j \in (k + 1)..Len(func.args) :
                                  func.args[j] # a
                    IN  IF last <= Len(args) THEN args[last] ELSE Null]]),
        !.current_scope = Len(st.scopes) + 1]

\* The user-defined branch (src/main.py:725-752)
call_user(name, args, f, st) ==
    LET r == Call("run", <<st.functions[name].body, f,
                           call_bound(name, args, st.functions[name], st,
                                      call_pushed(name, args, st))>>)
    IN  IF Len(call_pushed(name, args, st).call_stack) > MAX_RECURSION_DEPTH
        THEN error(call_pushed(name, args, st), "Recursion depth exceeded")
        \* finally: current_scope = old_scope; finally: call_stack.pop()
        ELSE R([r.st EXCEPT !.current_scope = st.current_scope,
                            !.call_stack = SubSeq(@, 1, Len(@) - 1)], r.v)

\* os.path.exists and open: the file a path names, every file being in the
\* directory /d, where the interpreter runs too
realpath(full_path) ==
    CASE full_path \in {"/d/A.exo", "/d/./A.exo", "A.exo", "./A.exo"} -> "A.exo"
      [] full_path \in {"/d/B.exo", "B.exo"} -> "B.exo"
      [] full_path = "/d/route:/A.exo" -> "route:/A.exo"
      [] OTHER -> full_path

\* `base_dir = os.path.dirname(os.path.abspath(file))` (src/main.py:784), the
\* interpreter running in /d: the name do_GET gives the body of a route,
\* "route:" and the path (src/main.py:1140), lies in the directory /d/route:
\* unless the path is /, and so does a module loaded from there
base_dir(f) ==
    IF f \in {"route:/home", "route:/about", "/d/route:/A.exo"} THEN "/d/route:"
    ELSE "/d"

\* import_module (src/main.py:776-815).  The value returned is the exports
\* map itself, not a copy.
import_module(module_path, f, st) ==
    LET exo == IF module_path = "A.exo" THEN module_path ELSE module_path \o ".exo"
        full_path == IF f # "" THEN base_dir(f) \o "/" \o exo ELSE exo
        loading == [st EXCEPT !.modules = Put(@, full_path, [exports |-> DictV(<<>>)]),
                              !.scopes = Append(@, Scope(1, "module:" \o exo)),
                              !.current_scope = Len(st.scopes) + 1]
        r == Call("run", <<files[realpath(full_path)], full_path, loading>>)
    IN  CASE full_path \in DOMAIN st.modules -> R(st, V("dict", 0, 1, full_path, <<>>))
          [] realpath(full_path) \notin DOMAIN files -> error(st, "File not found")
          \* finally: current_scope = old_scope
          [] OTHER -> R([r.st EXCEPT !.current_scope = st.current_scope],
                        IF Failed(r) THEN Null ELSE V("dict", 0, 1, full_path, <<>>))

\* the elif chain over the function's name (src/main.py:489-755), given the
\* argument values parse_args yields
call_named(name, args, f, s1) ==
    CASE name \in {"print", "ar_print"} ->
            R([s1 EXCEPT !.output = Append(@, JoinStr(args, 1, " "))], Null)
      [] name \in {"len", "ar_len"} ->
            IF args = <<>> THEN error(s1, "len requires one argument")
            ELSE IF args[1].t \notin {"str", "list", "dict"}
            THEN error(s1, "Value has no length")
            ELSE R(s1, IntV(IF args[1].t = "str" THEN Len(args[1].s)
                            ELSE Len(args[1].items)))
      [] name \in {"type", "ar_type"} ->
            IF args = <<>> THEN error(s1, "type requires one argument")
            ELSE R(s1, StrV(args[1].t))
      [] name \in {"str", "ar_str"} ->
            IF args = <<>> THEN error(s1, "str requires one argument")
            ELSE R(s1, StrV(PyStr(args[1])))
      [] name \in {"int", "ar_int"} ->
            IF args = <<>> THEN error(s1, "int requires one argument")
            ELSE IF IsNum(args[1]) THEN R(s1, IntV(PyInt(args[1])))
            ELSE IF args[1].t = "str" THEN error(s1, "unmodelled: int of a str")
            ELSE error(s1, "Cannot convert to integer")
      [] name \in {"abs", "ar_abs"} ->
            IF args = <<>> THEN error(s1, "abs requires one argument")
            ELSE IF IsNum(args[1])
            THEN R(s1, NumResult(args[1], args[1], Abs(args[1].n), args[1].d))
            ELSE error(s1, "Evaluation error: TypeError")
      [] name \in {"range", "ar_range"} ->
            IF Len(args) \notin {1, 2, 3} THEN error(s1, "range requires 1-3 arguments")
            ELSE IF \E k \in 1..Len(args) : args[k].t = "str"
            THEN error(s1, "unmodelled: int of a str")
            ELSE IF \E k \in 1..Len(args) : ~IsNum(args[k])
            THEN error(s1, "Evaluation error: TypeError")
            ELSE IF Len(args) = 3 /\ PyInt(args[3]) = 0
            THEN error(s1, "Evaluation error: ValueError")
            ELSE R(s1, ListV(CASE Len(args) = 1 -> PyRange(0, PyInt(args[1]), 1)
                               [] Len(args) = 2 ->
                                    PyRange(PyInt(args[1]), PyInt(args[2]), 1)
                               [] Len(args) = 3 ->
                                    PyRange(PyInt(args[1]), PyInt(args[2]),
                                            PyInt(args[3]))))
      [] name \in {"keys", "ar_keys"} ->
            IF args = <<>> THEN error(s1, "keys requires one argument")
            ELSE IF args[1].t # "dict" THEN error(s1, "keys requires an object")
            ELSE R(s1, ListV([k \in 1..Len(args[1].items) |-> args[1].items[k][1]]))
      [] name \in {"values", "ar_values"} ->
            IF args = <<>> THEN error(s1, "values requires one argument")
            ELSE IF args[1].t # "dict" THEN error(s1, "values requires an object")
            ELSE R(s1, ListV([k \in 1..Len(args[1].items) |-> args[1].items[k][2]]))
      [] name = "html" ->
            IF args = <<>> THEN error(s1, "html requires content") ELSE R(s1, args[1])
      [] name \in {"import", "ar_import"} /\ args = <<>> ->
            error(s1, "import requires a filename")
      [] name \in {"import", "ar_import"} /\ args[1].t # "str" ->
            error(s1, "Evaluation error: AttributeError")
      [] name \in {"import", "ar_import"} -> import_module(args[1].s, f, s1)
      [] name \in {"export", "ar_export"} ->
            IF Len(args) < 2 THEN error(s1, "export requires (name, value)")
            ELSE IF f # "" /\ f \in DOMAIN s1.modules
            THEN IF args[1].t \in {"list", "dict"}
                 THEN error(s1, "Evaluation error: TypeError")
                 ELSE R([s1 EXCEPT !.modules[f].exports =
                                       PyStore(@, args[1], args[2]).v], Null)
            ELSE R(s1, Null)
      [] name \in UnmodelledBuiltins -> error(s1, "unmodelled: " \o name)
      [] name \in DOMAIN s1.functions -> call_user(name, args, f, s1)
      [] OTHER -> error(s1, "Function not defined")

call_function(name, args_str, f, st) ==
    LET pa == parse_args(args_str, f, st)
    IN  CASE pa.st.err # "" -> pa
          \* a user-defined function is given the exports map itself
          [] name \notin get_builtin_functions /\ name \in DOMAIN pa.st.functions ->
                call_user(name, pa.v, f, pa.st)
          [] OTHER ->
                call_named(name, [k \in 1..Len(pa.v) |-> Deref(pa.v[k], pa.st)], f, pa.st)

-----------------------------------------------------------------------------
(* eval_base, eval_arith and evaluate (src/main.py:181-431, 758-773).      *)

eval_base(expr, f, st) ==
    CASE expr = <<>> -> R(st, Null)
      [] Len(expr) = 1 /\ expr[1] \in TrueLits -> R(st, BoolV(TRUE))
      [] Len(expr) = 1 /\ expr[1] \in FalseLits -> R(st, BoolV(FALSE))
      [] Len(expr) = 1 /\ expr[1] \in NullLits -> R(st, Null)
      \* String literals
      [] expr[1] \in StrLits /\ expr[Len(expr)] \in StrLits ->
            IF Len(expr) = 1 THEN R(st, StrV(StrText(expr[1])))
            ELSE R(st, StrV(StrText(expr[1]) \o "' " \o Text(SubSeq(expr, 2, Len(expr) - 1))
                            \o (IF Len(expr) > 2 THEN " '" ELSE "'") \o StrText(expr[Len(expr)])))
      \* Array literals
      [] expr[1] = "[" /\ expr[Len(expr)] = "]" ->
            LET inner == SubSeq(expr, 2, Len(expr) - 1)
                r == Call("eval_each", <<comma_scan(Append(inner, ",")),
                               1, <<>>, f, st>>)
            IN  IF inner = <<>> THEN R(st, ListV(<<>>))
                ELSE IF Failed(r) THEN r ELSE R(r.st, ListV(r.v))
      \* Object literals
      [] expr[1] = "{" /\ expr[Len(expr)] = "}" ->
            LET inner == SubSeq(expr, 2, Len(expr) - 1)
            IN  IF inner = <<>> THEN R(st, DictV(<<>>))
                ELSE Call("eval_pairs", <<comma_scan(Append(inner, ",")),
                                1, DictV(<<>>), f, st>>)
      \* Function calls
      [] /\ Contains(expr, {"("}) /\ expr[Len(expr)] = ")"
         /\ LET fn == SubSeq(expr, 1, Find(expr, {"("}) - 1)
            IN  /\ fn # <<>>
                /\ \/ Text(fn) \in get_builtin_functions
                   \/ Text(fn) \in DOMAIN st.functions
                   \/ (Len(fn) = 1 /\ isidentifier(fn[1])) ->
            call_function(Text(SubSeq(expr, 1, Find(expr, {"("}) - 1)),
                              SubSeq(expr, Find(expr, {"("}) + 1, Len(expr) - 1), f, st)
      \* Array/object indexing
      [] Contains(expr, {"["}) /\ Contains(expr, {"]"}) ->
            LET bp == Find(expr, {"["})
                vn == Text(SubSeq(expr, 1, bp - 1))
                var == Scope_get(st.scopes, st.current_scope, vn)
                idx == Call("evaluate", <<SubSeq(expr, bp + 1, RFind(expr, {"]"}) - 1), f, st>>)
                x == PyIndex(Deref(var.v, idx.st), idx.v)
            IN  IF ~var.found THEN error(st, "Variable not defined")
                ELSE IF Failed(idx) THEN idx
                ELSE IF x.kind = "ok" THEN R(idx.st, x.v)
                ELSE IF x.kind = "KeyError" THEN error(idx.st, "Variable not defined")
                ELSE IF x.kind = "IndexError" THEN error(idx.st, "Invalid index")
                ELSE error(idx.st, "Evaluation error: " \o x.kind)
      \* Property access
      [] Contains(expr, {"."}) ->
            LET parts == SplitAll(expr, {"."})
                obj == Scope_get(st.scopes, st.current_scope, Text(parts[1]))
            IN  IF ~obj.found THEN error(st, "Variable not defined")
                ELSE eval_props(parts, 2, obj.v, st)
      \* Variable lookup
      [] Scope_exists(st.scopes, st.current_scope, Text(expr)) ->
            R(st, Scope_get(st.scopes, st.current_scope, Text(expr)).v)
      \* Number literals
      [] Len(expr) = 1 /\ expr[1] \in IntLits -> R(st, IntV(IntVal(expr[1])))
      [] Len(expr) = 2 /\ expr[1] \in {"-", "+"} /\ expr[2] \in IntLits ->
            R(st, IntV(IF expr[1] = "-" THEN 0 - IntVal(expr[2]) ELSE IntVal(expr[2])))
      [] OTHER -> error(st, "Invalid expression")

\* the levels of eval_arith (src/main.py:204-278) over the stripped text, given
\* what each level's `split_by_op` yields.  Here and below the arms of a CASE
\* that models an if/elif chain are tried in the chain's order: an arm is
\* taken only when the guards before it are false.
arith_levels(expr, orS, andS, cmpS, addS, mulS, powParts, f, st) ==
    CASE orS.op # "" -> Call("eval_any", <<orS.parts, 1, f, st>>)
      [] andS.op # "" -> Call("eval_all", <<andS.parts, 1, f, st>>)
      [] startswith(expr, {"not", "ar_not"}) \/ (expr # <<>> /\ expr[1] \in {"!", "!="}) ->
            LET r == Call("eval_arith", <<CASE expr[1] = "not" -> AfterPrefix(expr, 1, 4)
                              [] expr[1] = "ar_not" -> AfterPrefix(expr, 1, 5)
                              [] expr[1] = "!" -> Tail(expr)
                              [] expr[1] = "!=" -> <<"=">> \o Tail(expr),
                            f, st>>)
            IN  IF Failed(r) THEN r ELSE R(r.st, BoolV(~Truthy(r.v)))
      [] cmpS.op # "" ->
            compare(cmpS.op, Call("eval_arith", <<cmpS.parts[1], f, st>>), cmpS.parts[2], f)
      [] addS.op # "" ->
            LET r == Call("eval_arith", <<addS.parts[1], f, st>>)
            IN  IF Failed(r) THEN r
                ELSE Call("eval_fold", <<addS.parts, 2, addS.op, r.v, f, r.st>>)
      [] mulS.op # "" ->
            LET r == Call("eval_arith", <<mulS.parts[1], f, st>>)
            IN  IF Failed(r) THEN r
                ELSE Call("eval_fold", <<mulS.parts, 2, mulS.op, r.v, f, r.st>>)
      [] Len(powParts) > 1 ->
            LET r == Call("eval_arith", <<powParts[Len(powParts)], f, st>>)
            IN  IF Failed(r) THEN r
                ELSE Call("eval_pow", <<powParts, Len(powParts) - 1, r.v, f, r.st>>)
      [] OTHER -> eval_base(expr, f, st)

\* the text after `expr = expr.strip()` and the outer parentheses
\* (src/main.py:184-202)
eval_arith(expr, f, st) ==
    arith_levels(strip_outer_parens(expr),
                 first_split(strip_outer_parens(expr), <<"or", "ar_or", "||">>, FALSE),
                 first_split(strip_outer_parens(expr), <<"and", "ar_and", "&&">>, FALSE),
                 first_split(strip_outer_parens(expr),
                             <<"==", "!=", ">=", "<=", ">", "<">>, TRUE),
                 first_split(strip_outer_parens(expr), <<"+", "-">>, FALSE),
                 first_split(strip_outer_parens(expr), <<"*", "/", "%">>, FALSE),
                 split_by_op(strip_outer_parens(expr), "^"), f, st)

\* evaluate (src/main.py:758-773).  A Python exception below is already the
\* ExoError "Evaluation error" this function turns it into.
evaluate(expr, f, st) ==
    CASE expr = <<>> \/ expr[1] = "#" -> R(st, Null)
      [] StripComment(expr) = <<>> -> R(st, Null)
      [] OTHER -> eval_arith(StripComment(expr), f, st)

-----------------------------------------------------------------------------
(* run (src/main.py:818-1095).  One pass of its while loop over one line   *)
(* is exec_line, which yields [st, i, ret, v]: the state after; the index  *)
(* i as the line's branch leaves it, before the `i += 1` that ends the     *)
(* pass; whether the branch returned from run; and the value returned.     *)
(* Line indices are 1-based: the source's `i >= len(code_lines)` is        *)
(* i > Len(code_lines) here.                                               *)

Cont(st, k) == [st |-> st, i |-> k, ret |-> FALSE, v |-> Null]
Ret(st, v) == [st |-> st, i |-> 0, ret |-> TRUE, v |-> v]

IsLine(curr, kws) == Len(curr) = 1 /\ curr[1] \in kws
\* curr.startswith(('else if ', <the Arabic else if> + ' '))
IsElseIf(curr) ==
    /\ Len(curr) >= 3
    /\ <<curr[1], curr[2]>> \in {<<"else", "if">>, <<"ar_else", "ar_if">>}

\* the block scan of route, func, else, while and for (src/main.py:886-895,
\* 913-922, 969-978, 992-1001, 1031-1040): [body, i], i the index of the
\* closing line, or past the end
RECURSIVE scan_block(_, _, _, _)
scan_block(code, k, depth, body) ==
    IF k > Len(code) THEN [body |-> body, i |-> k]
    ELSE LET curr == code[k]
         IN  IF startswith(curr, BlockOpeners)
             THEN scan_block(code, k + 1, depth + 1, Append(body, curr))
             ELSE IF IsLine(curr, EndKw)
             THEN IF depth - 1 = 0 THEN [body |-> body, i |-> k]
                  ELSE scan_block(code, k + 1, depth - 1, Append(body, curr))
             ELSE scan_block(code, k + 1, depth, Append(body, curr))

\* the block scan of an if / else-if branch (src/main.py:937-947)
RECURSIVE scan_branch(_, _, _, _)
scan_branch(code, k, depth, body) ==
    IF k > Len(code) THEN [body |-> body, i |-> k]
    ELSE LET curr == code[k]
         IN  IF startswith(curr, BlockOpeners)
             THEN scan_branch(code, k + 1, depth + 1, Append(body, curr))
             ELSE IF IsLine(curr, EndKw \cup ElseKw) \/ IsElseIf(curr)
             THEN IF depth = 1 THEN [body |-> body, i |-> k]
                  ELSE scan_branch(code, k + 1,
                                   IF IsLine(curr, EndKw) THEN depth - 1 ELSE depth,
                                   Append(body, curr))
             ELSE scan_branch(code, k + 1, depth, Append(body, curr))

\* line.split('=', 1) on tokens: the text before the first character `=` and
\* the text after it
SplitEq(line) ==
    LET k == Find(line, EqToks)
        pre == SubSeq(line, 1, k - 1)
        post == SubSeq(line, k + 1, Len(line))
    IN  CASE line[k] = "=" -> [name |-> pre, value |-> post]
          [] line[k] = "==" -> [name |-> pre, value |-> <<"=">> \o post]
          [] line[k] = "!=" -> [name |-> Append(pre, "!"), value |-> post]
          [] line[k] = ">=" -> [name |-> Append(pre, ">"), value |-> post]
          [] line[k] = "<=" -> [name |-> Append(pre, "<"), value |-> post]

\* text[text.find('[')+1 : text.find(']')]; with no `]` the slice ends before
\* the last character
IndexExpr(text) ==
    LET b == Find(text, {"["})
        e == Find(text, {"]"})
    IN  IF e = 0 THEN SubSeq(text, b + 1, Len(text) - 1) ELSE SubSeq(text, b + 1, e - 1)

\* `current_scope.set(name, value, local)`, val what Evaluate yields for the
\* value (src/main.py:861-862, 1083-1084)
set_value(name, val, local, k) ==
    CASE val.st.err # "" -> Cont(val.st, k)
      [] OTHER -> Cont([val.st EXCEPT !.scopes =
                           Scope_set(@, val.st.current_scope, name, val.v, local)], k)

\* the end of a store into a container: x is its outcome.  A container is a
\* value of its binding here, so the store writes the changed container back
\* where vn is bound.
stored(vn, x, st, k) ==
    IF x.kind # "ok" THEN Cont(error(st, "Unexpected error: " \o x.kind).st, k)
    ELSE Cont([st EXCEPT !.scopes = Scope_set(@, st.current_scope, vn, x.v, FALSE)], k)

store_value(vn, var, idx, val, k) ==
    IF Failed(val) THEN Cont(val.st, k)
    ELSE stored(vn, PyStore(var, idx, val.v), val.st, k)

store_at(vn, var, idx, val_expr, k, f) ==
    IF Failed(idx) THEN Cont(idx.st, k)
    ELSE store_value(vn, var, idx.v, Call("evaluate", <<val_expr, f, idx.st>>), k)

\* `var = current_scope.get(vn); idx = evaluate(idx_expr); var[idx] =
\* evaluate(val_expr)` and its `except KeyError` (src/main.py:845-850,
\* 1065-1070)
store_index(vn, idx_expr, val_expr, k, f, st) ==
    LET var == Scope_get(st.scopes, st.current_scope, vn)
    IN  IF ~var.found THEN Cont(error(st, "Variable not defined").st, k)
        ELSE store_at(vn, var.v, Call("evaluate", <<idx_expr, f, st>>), val_expr, k, f)

\* obj[parts[-1]] = value below obj[parts[1]]...[parts[-2]] (src/main.py:1076-1078)
RECURSIVE StorePath(_, _, _)
store_back(obj, key, below) ==
    IF below.kind # "ok" THEN below ELSE PyStore(obj, key, below.v)

store_below(obj, keys, value, inner) ==
    IF inner.kind # "ok" THEN inner
    ELSE store_back(obj, keys[1], StorePath(inner.v, Tail(keys), value))

StorePath(obj, keys, value) ==
    IF Len(keys) = 1 THEN PyStore(obj, keys[1], value)
    ELSE store_below(obj, keys, value, PyIndex(obj, keys[1]))

\* the else body sb of the chain (src/main.py:966-981)
if_else(sb, f, st) ==
    LET e == Call("run", <<sb.body, f, st>>)
    IN  IF Failed(e) THEN Cont(e.st, sb.i)
        ELSE IF e.v # Null THEN Ret(e.st, e.v)
        ELSE Cont(e.st, sb.i)

\* what follows a branch's body, at line sc.i (src/main.py:955-982): the end
\* of the input or `end` leaves the loop, an else-if goes round it, an else
\* runs its body when no branch has executed, and leaves the loop otherwise
if_rest(code, sc, executed, f, st) ==
    IF sc.i > Len(code) THEN Cont(st, sc.i)
    ELSE IF IsLine(code[sc.i], EndKw) THEN Cont(st, sc.i)
    ELSE IF IsElseIf(code[sc.i])
    THEN Call("if_chain", <<code, sc.i, code[sc.i], 2,
                 IF code[sc.i][1] = "else" THEN 8 ELSE 9, executed, f, st>>)
    ELSE IF IsLine(code[sc.i], ElseKw) /\ ~executed
    THEN if_else(scan_block(code, sc.i + 1, 1, <<>>), f, st)
    ELSE Cont(st, sc.i)

\* if_taken as it would be if a taken branch kept the loop-control signals
\* of its body to itself and handed on returned values only
if_taken_keeps_control(code, sc, r, k, f) ==
    IF Failed(r) THEN Cont(r.st, k)
    ELSE IF r.v # Null /\ r.v \notin {StrV("break"), StrV("continue")} THEN Ret(r.st, r.v)
    ELSE if_rest(code, sc, TRUE, f, r.st)

\* `result = run(body); if result is not None: return result` (src/main.py:951-953)
if_taken(code, sc, r, k, f) ==
    IF Failed(r) THEN Cont(r.st, k)
    ELSE IF r.v # Null THEN Ret(r.st, r.v)
    ELSE if_rest(code, sc, TRUE, f, r.st)

\* `if not executed and evaluate(cond)` (src/main.py:949), c what the
\* condition yields: false, unevaluated, once a branch has executed
if_branch(code, k, sc, executed, c, f) ==
    IF Failed(c) THEN Cont(c.st, k)
    ELSE IF ~executed /\ Truthy(c.v) THEN if_taken(code, sc, Call("run", <<sc.body, f, c.st>>), k, f)
    ELSE if_rest(code, sc, executed, f, c.st)

\* the while True loop of the if statement (src/main.py:931-982), entered at
\* the if or else-if line k
if_chain(code, k, line, nkw, prefix_len, executed, f, st) ==
    if_branch(code, k, scan_branch(code, k + 1, 1, <<>>), executed,
              IF executed THEN R(st, BoolV(FALSE))
              ELSE Call("evaluate", <<AfterPrefix(line, nkw, prefix_len), f, st>>),
              f)

\* `while evaluate(cond, i+1, file):` (src/main.py:1003-1010)
while_loop(cond, body, k, f, st) ==
    LET c == Call("evaluate", <<cond, f, st>>)
        r == Call("run", <<body, f, c.st>>)
    IN  IF Failed(c) THEN Cont(c.st, k)
        ELSE IF ~Truthy(c.v) THEN Cont(c.st, k)
        ELSE IF Failed(r) THEN Cont(r.st, k)
        ELSE IF PyEq(r.v, StrV("break")) THEN Cont(r.st, k)
        ELSE IF PyEq(r.v, StrV("continue")) THEN Call("while_loop", <<cond, body, k, f, r.st>>)
        ELSE IF r.v # Null THEN Ret(r.st, r.v)
        ELSE Call("while_loop", <<cond, body, k, f, r.st>>)

\* `for item in iterable:` (src/main.py:1042-1050)
for_loop(items, n, vn, body, k, f, st) ==
    IF n > Len(items) THEN Cont(st, k)
    ELSE LET set == [st EXCEPT !.scopes =
                        Scope_set(@, st.current_scope, vn, items[n], TRUE)]
             r == Call("run", <<body, f, set>>)
         IN  IF Failed(r) THEN Cont(r.st, k)
             ELSE IF PyEq(r.v, StrV("break")) THEN Cont(r.st, k)
             ELSE IF PyEq(r.v, StrV("continue"))
             THEN Call("for_loop", <<items, n + 1, vn, body, k, f, r.st>>)
             ELSE IF r.v # Null THEN Ret(r.st, r.v)
             ELSE Call("for_loop", <<items, n + 1, vn, body, k, f, r.st>>)

\* the branch of run's if / elif chain a line takes (src/main.py:835-1086)
LineKind(line) ==
    CASE startswith(line, DeclKw) -> "declaration"
      [] startswith(line, ReturnKw) -> "return"
      [] IsLine(line, BreakKw) -> "break"
      [] IsLine(line, ContinueKw) -> "continue"
      [] startswith(line, RouteKw) -> "route"
      [] startswith(line, FuncKw) -> "func"
      [] startswith(line, IfKw) -> "if"
      [] startswith(line, WhileKw) -> "while"
      [] startswith(line, ForKw) -> "for"
      [] Contains(line, {"("}) /\ Contains(line, {")"}) -> "call"
      [] Contains(line, EqToks) -> "assignment"
      [] OTHER -> "expression"

\* the tokens the model's route paths start with (route_path.startswith('/'))
SlashToks == {"/", "/home", "/about"}

\* ' in ' in rest, and rest.split(' in ', 1)
HasSep(rest, sep) == \E k \in 2..(Len(rest) - 1) : rest[k] = sep
SepAt(rest, sep) ==
    CHOOSE k \in 2..(Len(rest) - 1) :
        rest[k] = sep /\ \A j \in 2..(k - 1) : rest[j] # sep

\* Variable declaration (src/main.py:835-862): `rest`, the line after its
\* keyword, stores into a container, lacks its `=`, names no identifier, or
\* declares the name in the current scope
declare(rest, k, f, st) ==
    CASE /\ Contains(rest, {"["}) /\ Contains(rest, EqToks)
         /\ Find(rest, {"["}) < Find(rest, EqToks) ->
            store_index(Text(SubSeq(rest, 1, Find(rest, {"["}) - 1)),
                        IndexExpr(rest), SplitEq(rest).value, k, f, st)
      [] ~Contains(rest, EqToks) ->
            Cont(error(st, "Invalid syntax: use = to assign value").st, k)
      [] ~(Len(SplitEq(rest).name) = 1 /\ isidentifier(SplitEq(rest).name[1])) ->
            Cont(error(st, "Invalid variable name").st, k)
      [] OTHER -> set_value(SplitEq(rest).name[1],
                            Call("evaluate", <<SplitEq(rest).value, f, st>>), TRUE, k)

\* `return evaluate(line[prefix_len:].strip())` (src/main.py:866-867)
return_value(rest, k, f, st) ==
    IF rest = <<>> THEN Ret(st, Null)
    ELSE LET val == Call("evaluate", <<rest, f, st>>)
         IN  IF Failed(val) THEN Cont(val.st, k) ELSE Ret(val.st, val.v)

\* Return statement (src/main.py:865-867)
exec_return(code, k, f, st) ==
    return_value(AfterPrefix(code[k], 1,
                             IF startswith(code[k], {"return"}) THEN 7 ELSE 6),
                 k, f, st)

\* `web_routes[route_path] = route_body` (src/main.py:880-897)
route_to(rest, sb, st) ==
    Cont([st EXCEPT !.web_routes =
             Put(@, IF rest # <<>> /\ rest[1] \in SlashToks THEN Text(rest)
                    ELSE "/" \o Text(rest),
                 sb.body)],
         sb.i)

\* exec_route that also runs the body it registers
exec_route_and_run(code, k, f, st) ==
    LET sb == scan_block(code, k + 1, 1, <<>>)
        reg == route_to(AfterPrefix(code[k], 1,
                                    IF startswith(code[k], {"route"}) THEN 6 ELSE 5), sb, st)
    IN  Cont(Call("run", <<sb.body, f, reg.st>>).st, sb.i)

\* Route definition (src/main.py:878-897)
exec_route(code, k, f, st) ==
    route_to(AfterPrefix(code[k], 1, IF startswith(code[k], {"route"}) THEN 6 ELSE 5),
             scan_block(code, k + 1, 1, <<>>), st)

\* define with a copy of the scope captured in place of the scope itself
define_with_copy(fn, args_names, sb, st) ==
    Cont([st EXCEPT !.scopes = Append(@, @[st.current_scope]),
                    !.functions =
                        Put(@, fn, [body |-> sb.body, args |-> args_names,
                                    def_scope |-> Len(st.scopes) + 1])], sb.i)

\* `functions[fn] = (body, args_names, current_scope)` (src/main.py:924):
\* the scope is the Scope object itself, an index here
define(fn, args_names, sb, st) ==
    Cont([st EXCEPT !.functions =
             Put(@, fn, [body |-> sb.body, args |-> args_names,
                         def_scope |-> st.current_scope])], sb.i)

\* the names between the parentheses of `rest` (src/main.py:906-908)
func_args(rest) ==
    LET pieces == SplitAll(SubSeq(rest, Find(rest, {"("}) + 1, Find(rest, {")"}) - 1),
                           {","})
        named == SelectSeq(pieces, LAMBDA a : a # <<>>)
    IN  [n \in 1..Len(named) |-> Text(named[n])]

\* Function definition (src/main.py:900-924)
exec_func(code, k, f, st) ==
    LET rest == Tail(code[k])
    IN  IF ~Contains(rest, {"("}) \/ ~Contains(rest, {")"})
        THEN Cont(error(st, "Invalid function syntax").st, k)
        ELSE define(Text(SubSeq(rest, 1, Find(rest, {"("}) - 1)), func_args(rest),
                    scan_block(code, k + 1, 1, <<>>), st)

\* If-else statement (src/main.py:927-982)
exec_if(code, k, f, st) ==
    Call("if_chain", <<code, k, code[k], 1, IF startswith(code[k], {"if"}) THEN 3 ELSE 4,
             FALSE, f, st>>)

\* While loop (src/main.py:985-1010)
exec_while(code, k, f, st) ==
    LET line == code[k]
        prefix_len == IF startswith(line, {"while"}) THEN 6 ELSE 7
        cond == AfterPrefix(line, 1, prefix_len)
        sb == scan_block(code, k + 1, 1, <<>>)
    IN  Call("while_loop", <<cond, sb.body, sb.i, f, st>>)

\* the loop over what the iterable yields (src/main.py:1025-1050)
for_over(vn, iterable, sb, k, f) ==
    IF Failed(iterable) THEN Cont(iterable.st, k)
    ELSE IF iterable.v.t \notin {"list", "dict", "str"}
    THEN Cont(error(iterable.st, "Value is not iterable").st, k)
    ELSE IF iterable.v.t = "str" /\ iterable.v.s # ""
    THEN Cont(error(iterable.st, "unmodelled: the characters of a str").st, k)
    ELSE Call("for_loop", <<IF iterable.v.t = "dict"
                 THEN [n \in 1..Len(iterable.v.items) |-> iterable.v.items[n][1]]
                 ELSE iterable.v.items,
                 1, vn, sb.body, sb.i, f, iterable.st>>)

\* `var_name, iterable_expr = rest.split(' in ', 1)` (src/main.py:1016-1025)
for_in(rest, sb, k, f, st) ==
    LET at == SepAt(rest, IF HasSep(rest, "in") THEN "in" ELSE "ar_in")
    IN  IF ~HasSep(rest, "in") /\ ~HasSep(rest, "ar_in")
        THEN Cont(error(st, "Invalid for syntax").st, k)
        ELSE for_over(Text(SubSeq(rest, 1, at - 1)),
                      Call("evaluate", <<SubSeq(rest, at + 1, Len(rest)), f, st>>), sb, k, f)

\* For loop (src/main.py:1013-1050)
exec_for(code, k, f, st) ==
    for_in(AfterPrefix(code[k], 1, IF startswith(code[k], {"for"}) THEN 4 ELSE 5),
           scan_block(code, k + 1, 1, <<>>), k, f, st)

\* Function call, and the final else (src/main.py:1053-1054, 1085-1086)
exec_expression(code, k, f, st) ==
    Cont(Call("evaluate", <<code[k], f, st>>).st, k)

\* `for part in parts[1:-1]: obj = obj[part]` (src/main.py:1076-1077)
RECURSIVE WalkPath(_, _)
WalkPath(obj, keys) ==
    IF keys = <<>> THEN [kind |-> "ok", v |-> obj]
    ELSE LET inner == PyIndex(obj, keys[1])
         IN  IF inner.kind # "ok" THEN inner ELSE WalkPath(inner.v, Tail(keys))

\* `obj[parts[-1]] = value` once the path is walked (src/main.py:1078)
path_value(vn, obj, keys, val, k) ==
    IF Failed(val) THEN Cont(val.st, k)
    ELSE stored(vn, StorePath(obj, keys, val.v), val.st, k)

\* the walk `for part in parts[1:-1]` comes before the value (src/main.py:1076-1078)
path_walked(vn, obj, keys, walked, value, k, f, st) ==
    IF walked.kind = "KeyError" THEN Cont(error(st, "Variable not defined").st, k)
    ELSE IF walked.kind # "ok"
    THEN Cont(error(st, "Unexpected error: " \o walked.kind).st, k)
    ELSE path_value(vn, obj, keys, Call("evaluate", <<value, f, st>>), k)

\* Property assignment (src/main.py:1072-1080)
assign_path(parts, value, k, f, st) ==
    LET obj == Scope_get(st.scopes, st.current_scope, Text(parts[1]))
        keys == [n \in 1..(Len(parts) - 1) |-> StrV(Text(parts[n + 1]))]
    IN  IF ~obj.found THEN Cont(error(st, "Variable not defined").st, k)
        ELSE path_walked(Text(parts[1]), obj.v, keys,
                         WalkPath(obj.v, SubSeq(keys, 1, Len(keys) - 1)),
                         value, k, f, st)

\* assign without the test `current_scope.exists(var_name)` of a plain name
assign_unchecked(nv, k, f, st) ==
    IF Contains(nv.name, {"["})
    THEN store_index(Text(SubSeq(nv.name, 1, Find(nv.name, {"["}) - 1)),
                     IndexExpr(nv.name), nv.value, k, f, st)
    ELSE IF Contains(nv.name, {"."})
    THEN assign_path(SplitAll(nv.name, {"."}), nv.value, k, f, st)
    ELSE set_value(Text(nv.name), Call("evaluate", <<nv.value, f, st>>), FALSE, k)

\* `var_name, value_expr = line.split('=', 1)` and the three forms of the
\* target (src/main.py:1058-1084)
assign(nv, k, f, st) ==
    IF Contains(nv.name, {"["})
    THEN store_index(Text(SubSeq(nv.name, 1, Find(nv.name, {"["}) - 1)),
                     IndexExpr(nv.name), nv.value, k, f, st)
    ELSE IF Contains(nv.name, {"."})
    THEN assign_path(SplitAll(nv.name, {"."}), nv.value, k, f, st)
    ELSE IF ~Scope_exists(st.scopes, st.current_scope, Text(nv.name))
    THEN Cont(error(st, "Variable not defined - use 'let' to declare it first").st, k)
    ELSE set_value(Text(nv.name), Call("evaluate", <<nv.value, f, st>>), FALSE, k)

\* Variable assignment (src/main.py:1057-1084)
exec_assignment(code, k, f, st) == assign(SplitEq(code[k]), k, f, st)

exec_line(code, k, f, st) ==
    CASE LineKind(code[k]) = "declaration" -> declare(Tail(code[k]), k, f, st)
      [] LineKind(code[k]) = "return" -> exec_return(code, k, f, st)
      [] LineKind(code[k]) = "break" -> Ret(st, StrV("break"))
      [] LineKind(code[k]) = "continue" -> Ret(st, StrV("continue"))
      [] LineKind(code[k]) = "route" -> exec_route(code, k, f, st)
      [] LineKind(code[k]) = "func" -> exec_func(code, k, f, st)
      [] LineKind(code[k]) = "if" -> exec_if(code, k, f, st)
      [] LineKind(code[k]) = "while" -> exec_while(code, k, f, st)
      [] LineKind(code[k]) = "for" -> exec_for(code, k, f, st)
      [] LineKind(code[k]) = "call" -> exec_expression(code, k, f, st)
      [] LineKind(code[k]) = "assignment" -> exec_assignment(code, k, f, st)
      [] OTHER -> exec_expression(code, k, f, st)

\* `if not line or line.startswith('#')` (src/main.py:829)
Skipped(line) == IF line = <<>> THEN TRUE ELSE line[1] = "#"

\* the while loop of run (src/main.py:826-1095), from line k
RECURSIVE run_loop(_, _, _, _)
\* the end of a pass, x what the line's branch yields: an ExoError ends run,
\* a return ends it with the value, and otherwise `i += 1` (src/main.py:1088-1095)
run_pass(code, f, x) ==
    CASE x.st.err # "" -> R(x.st, Null)
      [] x.ret -> R(x.st, x.v)
      [] OTHER -> run_loop(code, x.i + 1, f, x.st)

run_loop(code, k, f, st) ==
    CASE k > Len(code) -> R(st, Null)
      [] Skipped(code[k]) -> run_loop(code, k + 1, f, st)
      [] OTHER -> run_pass(code, f, exec_line(code, k, f, st))

\* the calls of the functions above
Call(op, a) ==
    CASE op = "eval_arith" -> eval_arith(a[1], a[2], a[3])
      [] op = "evaluate" -> evaluate(a[1], a[2], a[3])
      [] op = "eval_any" -> eval_any(a[1], a[2], a[3], a[4])
      [] op = "eval_all" -> eval_all(a[1], a[2], a[3], a[4])
      [] op = "eval_fold" -> eval_fold(a[1], a[2], a[3], a[4], a[5], a[6])
      [] op = "eval_pow" -> eval_pow(a[1], a[2], a[3], a[4], a[5])
      [] op = "eval_each" -> eval_each(a[1], a[2], a[3], a[4], a[5])
      [] op = "eval_pairs" -> eval_pairs(a[1], a[2], a[3], a[4], a[5])
      \* run enters its while loop at the first line
      [] op = "run" -> run_loop(a[1], 1, a[2], a[3])
      [] op = "exec_line" -> exec_line(a[1], a[2], a[3], a[4])
      [] op = "if_chain" -> if_chain(a[1], a[2], a[3], a[4], a[5], a[6], a[7], a[8])
      [] op = "while_loop" -> while_loop(a[1], a[2], a[3], a[4], a[5])
      [] op = "for_loop" -> for_loop(a[1], a[2], a[3], a[4], a[5], a[6], a[7])

-----------------------------------------------------------------------------
(* The programs the interpreter is run on: a program is the list           *)
(* code.split('\n') of run (src/main.py:824), each line a list of tokens.  *)

\* the largest integer literal of the generated programs
MaxInt == 2
\* the largest number of else-if branches of a generated chain
MaxElseIf == 1
\* the largest number of blocks a generated return statement is nested in
MaxNest == 2

Lit(n) == ToString(n)
Lits == {Lit(n) : n \in 0..MaxInt}
PrintLine(tok) == <<"print", "(", tok, ")">>

RECURSIVE Flatten(_)
Flatten(blocks) ==
    IF blocks = <<>> THEN <<>> ELSE Head(blocks) \o Flatten(Tail(blocks))

\* `func name() <body> end`, followed by the lines `after`
InFunc(name, body, after) ==
    << <<"func", name, "(", ")">> >> \o body \o << <<"end">> >> \o after

\* C1: an if / else-if / else chain whose k-th body prints k and whose else
\* body prints the number of conditions plus one; `print(0)` follows the chain
Conds == {"true", "false"}
Chains == UNION {[1..n -> Conds] : n \in 1..(MaxElseIf + 1)}
ChainLines(cs, els) ==
    Flatten([k \in 1..Len(cs) |->
                << (IF k = 1 THEN <<"if", cs[k]>> ELSE <<"else", "if", cs[k]>>),
                   PrintLine(Lit(k)) >>])
    \o (IF els THEN << <<"else">>, PrintLine(Lit(Len(cs) + 1)) >> ELSE <<>>)
    \o << <<"end">>, PrintLine("0") >>
ChainProgram(cs, els, infunc) ==
    IF infunc THEN InFunc("f", ChainLines(cs, els), << <<"f", "(", ")">> >>)
    ELSE ChainLines(cs, els)
ChainPrograms ==
    {ChainProgram(cs, els, infunc) : cs \in Chains, els \in BOOLEAN, infunc \in BOOLEAN}

\* C2: `return v` inside the blocks `nest` (outermost first) of the body of
\* f, followed by print('after') and `return 9`; the caller keeps f's value
ReturnValues == {"1", "0", "false", "null", "'a'"}
Nests == UNION {[1..n -> {"if", "while", "for"}] : n \in 0..MaxNest}
RECURSIVE Nested(_, _)
Nested(nest, inner) ==
    IF nest = <<>> THEN inner
    ELSE LET below == Nested(Tail(nest), inner)
         IN  CASE Head(nest) = "if" -> << <<"if", "true">> >> \o below \o << <<"end">> >>
               [] Head(nest) = "while" ->
                    << <<"let", "n", "=", "0">>, <<"while", "n", "<", "1">>,
                       <<"n", "=", "n", "+", "1">> >> \o below \o << <<"end">> >>
               [] Head(nest) = "for" ->
                    << <<"for", "k", "in", "[", "1", ",", "2", "]">> >>
                    \o below \o << <<"end">> >>
ReturnProgram(nest, v) ==
    InFunc("f",
           Nested(nest, << <<"return", v>> >>)
               \o << PrintLine("'after'"), <<"return", "9">> >>,
           << <<"let", "r", "=", "f", "(", ")">> >>)
ReturnPrograms == {ReturnProgram(nest, v) : nest \in Nests, v \in ReturnValues}

\* C24: `return 'break'` or `return 'continue'` inside blocks of the body of
\* f of which one at least is a loop
SignalNests == {nest \in Nests : \E k \in DOMAIN nest : nest[k] \in {"while", "for"}}
SignalPrograms ==
    {ReturnProgram(nest, v) : nest \in SignalNests, v \in {"'break'", "'continue'"}}

\* C3: g is defined where x is a, then x becomes b by `how` (an assignment
\* or a second declaration), then g is called: in the global scope, in the
\* body of outer, or, `late`, after outer has returned
CaptureProgram(a, b, how, place) ==
    LET change == IF how = "assign" THEN <<"x", "=", Lit(b)>> ELSE <<how, "x", "=", Lit(b)>>
        defs == << <<"let", "x", "=", Lit(a)>>, <<"func", "g", "(", ")">>,
                   <<"return", "x">>, <<"end">>, change >>
    IN  CASE place = "global" -> defs \o << <<"let", "r", "=", "g", "(", ")">> >>
          [] place = "local" ->
               InFunc("outer", defs \o << <<"return", "g", "(", ")">> >>,
                      << <<"let", "r", "=", "outer", "(", ")">> >>)
          [] place = "late" ->
               InFunc("outer", defs,
                      << <<"outer", "(", ")">>, <<"let", "r", "=", "g", "(", ")">> >>)
CapturePrograms ==
    {CaptureProgram(a, b, how, place) :
        a \in 0..MaxInt, b \in 0..MaxInt, how \in {"assign", "let", "var"},
        place \in {"global", "local", "late"}}

\* C4: callee reads `probe`: v, global and shadowed in caller, or w, declared
\* in caller only
LexicalProgram(a, b, probe) ==
    << <<"let", "v", "=", Lit(a)>>,
       <<"func", "callee", "(", ")">>, <<"return", probe>>, <<"end">>,
       <<"func", "caller", "(", ")">>,
       <<"let", "v", "=", Lit(b)>>, <<"let", "w", "=", Lit(b)>>,
       <<"return", "callee", "(", ")">>, <<"end">>,
       <<"let", "r", "=", "caller", "(", ")">> >>
LexicalPrograms ==
    {LexicalProgram(a, b, probe) : a \in 0..MaxInt, b \in 0..MaxInt, probe \in {"v", "w"}}

\* C5: g declares x, which the global scope declares too
ShadowProgram(a, b, kw) ==
    << <<"let", "x", "=", Lit(a)>>,
       <<"func", "g", "(", ")">>, <<kw, "x", "=", Lit(b)>>, <<"return", "x">>, <<"end">>,
       <<"let", "r", "=", "g", "(", ")">> >>
ShadowPrograms ==
    {ShadowProgram(a, b, kw) : a \in 0..MaxInt, b \in 0..MaxInt, kw \in {"let", "var", "const"}}

\* C6: inner assigns x, which is declared in the global scope and, by
\* `level`, in no other scope, in the body of outer too, or in inner too
AssignProgram(a, b, level) ==
    LET decl == << <<"let", "x", "=", Lit(a)>> >>
    IN  decl
        \o InFunc("outer",
                  (IF level \in {"outer", "inner"} THEN decl ELSE <<>>)
                  \o InFunc("inner",
                            (IF level = "inner" THEN decl ELSE <<>>)
                            \o << <<"x", "=", Lit(b)>> >>,
                            << <<"inner", "(", ")">> >>),
                  << <<"outer", "(", ")">> >>)
AssignPrograms ==
    {AssignProgram(a, b, level) :
        a \in 0..MaxInt, b \in 0..MaxInt, level \in {"global", "outer", "inner"}}

\* C7: z is assigned and declared nowhere; q is declared nowhere either
UndefinedRhs ==
    {<<"3">>, <<"a", "+", "1">>, <<"q">>, <<"f", "(", ")">>, <<"print", "(", "1", ")">>}
UndefinedProgram(rhs, infunc) ==
    << <<"let", "a", "=", "1">> >>
    \o (IF infunc
        THEN InFunc("f", << <<"z", "=">> \o rhs >>, << <<"f", "(", ")">> >>)
        ELSE << <<"z", "=">> \o rhs >>)
    \o << PrintLine("a") >>
UndefinedPrograms ==
    {UndefinedProgram(rhs, infunc) : rhs \in UndefinedRhs, infunc \in BOOLEAN}

\* C8: assignments whose right-hand side holds a call or parentheses, to a
\* plain name, an index and a dotted path; each program ends with the
\* assignment
TargetProgram(form, a, b) ==
    << <<"let", "a", "=", Lit(a)>>, <<"let", "b", "=", Lit(b)>>,
       <<"let", "x", "=", "0">>,
       <<"let", "xs", "=", "[", "0", "]">>,
       <<"let", "m", "=", "{", "'a'", ":", "0", "}">>,
       <<"func", "f", "(", "n", ")">>, <<"return", "n">>, <<"end">> >>
    \o << CASE form = "call" -> <<"x", "=", "f", "(", "a", ")">>
            [] form = "paren" -> <<"x", "=", "(", "a", "+", "b", ")", "*", "2">>
            [] form = "index" -> <<"xs", "[", "0", "]", "=", "f", "(", "a", ")">>
            [] form = "path" -> <<"m", ".", "a", "=", "(", "a", "+", "b", ")">>
            [] form = "plain" -> <<"x", "=", "a", "+", "b">> >>
TargetForms == {"call", "paren", "index", "path", "plain"}
TargetPrograms ==
    {TargetProgram(form, a, b) : form \in TargetForms, a \in 0..MaxInt, b \in 0..MaxInt}

\* C9: scenario S3 of the specification, with n for its 7
S3(n) ==
    << <<"func", "make", "(", "n", ")">>,
       <<"func", "inner", "(", ")">>, <<"return", "n">>, <<"end">>,
       <<"return", "inner">>, <<"end">>,
       <<"let", "f", "=", "make", "(", Lit(n), ")">>,
       <<"print", "(", "f", "(", ")", ")">> >>
S3Programs == {S3(n) : n \in 0..MaxInt} \cup {S3(7)}

\* C10: the last line of f's body is the bare expression a + b; then the
\* same expression is a line of the top level
LastExprProgram(a, b) ==
    InFunc("f", << <<Lit(a), "+", Lit(b)>> >>,
           << <<"let", "r", "=", "f", "(", ")">>, <<Lit(a), "+", Lit(b)>> >>)
LastExprPrograms == {LastExprProgram(a, b) : a \in 0..MaxInt, b \in 0..MaxInt}

\* every branch of run at the top level
OtherPrograms ==
    { << <<"#", "x">>, <<>>, <<"let", "s", "=", "0">>,
         <<"for", "k", "in", "[", "1", ",", "2", "]">>, <<"s", "=", "s", "+", "k">>,
         <<"end">>,
         <<"while", "s", "<", "5">>, <<"s", "=", "s", "+", "1">>, <<"end">>,
         <<"route", "/home">>, <<"return", "'a'">>, <<"end">>,
         <<"s">>, <<"return", "s">> >>,
      << <<"let", "s", "=", "0">>, <<"break">>, <<"s", "=", "1">> >>,
      << <<"let", "s", "=", "0">>, <<"continue">>, <<"s", "=", "1">> >> }

\* C11: module A prints 'A' and exports x; the entry file imports it twice,
\* under the spellings p and q, or once itself and once through module B
ModuleA == << PrintLine("'A'"), <<"export", "(", "'x'", ",", "1", ")">> >>
Spellings == {"'A'", "'./A'", "'A.exo'"}
ImportTwice(p, q, through) ==
    [code |-> IF through
              THEN << <<"let", "a", "=", "import", "(", p, ")">>,
                      <<"let", "b", "=", "import", "(", "'B'", ")">>,
                      <<"print", "(", "b", ".", "y", ")">> >>
              ELSE << <<"let", "a", "=", "import", "(", p, ")">>,
                      <<"let", "b", "=", "import", "(", q, ")">>,
                      <<"print", "(", "a", ".", "x", ")">> >>,
     files |-> [n \in {"A.exo", "B.exo"} |->
                  IF n = "A.exo" THEN ModuleA
                  ELSE << <<"let", "a", "=", "import", "(", q, ")">>,
                          <<"export", "(", "'y'", ",", "a", ".", "x", ")">> >>],
     file |-> "main.exo"]
ImportWorlds ==
    {ImportTwice(p, q, through) : p \in Spellings, q \in Spellings, through \in BOOLEAN}
    \cup {[code |-> << <<"let", "a", "=", "import", "(", "'C'", ")">> >>,
           files |-> [n \in {"A.exo"} |-> ModuleA], file |-> "main.exo"]}

\* C12: A exports x, imports B and exports y; B imports A, under the spelling
\* p, and prints how many names A's exports map holds.  The entry file is A
\* itself or a file that imports A.
Circular(p, entry) ==
    [code |-> IF entry = "A.exo"
              THEN ModuleA \o << <<"let", "b", "=", "import", "(", "'B'", ")">>,
                                 <<"export", "(", "'y'", ",", "2", ")">> >>
              ELSE << <<"let", "a", "=", "import", "(", "'A'", ")">>,
                      <<"let", "n", "=", "len", "(", "a", ")">>,
                      PrintLine("n") >>,
     files |-> [n \in {"A.exo", "B.exo"} |->
                  IF n = "A.exo"
                  THEN ModuleA \o << <<"let", "b", "=", "import", "(", "'B'", ")">>,
                                     <<"export", "(", "'y'", ",", "2", ")">> >>
                  ELSE << PrintLine("'B'"),
                          <<"let", "a", "=", "import", "(", p, ")">>,
                          <<"let", "n", "=", "len", "(", "a", ")">>,
                          PrintLine("n") >>],
     file |-> entry]
CircularWorlds ==
    {Circular(p, "A.exo") : p \in Spellings}
    \cup {Circular(p, "main.exo") : p \in {"'A'", "'A.exo'"}}

\* C14: r is `left op right`, the right operand raising (1/0, the undefined
\* zz) or counting its evaluations in n (bump())
RightOperands == {<<"(", "1", "/", "0", ")">>, <<"bump", "(", ")">>, <<"zz">>}
ShortCircuitProgram(left, op, right) ==
    << <<"let", "n", "=", "0">>,
       <<"func", "bump", "(", ")">>,
       <<"n", "=", "n", "+", "1">>,
       <<"return", "true">>,
       <<"end">>,
       <<"let", "r", "=", left, op>> \o right >>
ShortCircuitPrograms ==
    {ShortCircuitProgram(left, op, right) :
        left \in {"true", "false", "0", "1"}, op \in SpacedOps, right \in RightOperands}

\* C15: r is `a op1 b op2 c`, the operands non-zero
MulOps == {"*", "/", "%"}
MulProgram(a, op1, b, op2, c) == << <<"let", "r", "=", Lit(a), op1, Lit(b), op2, Lit(c)>> >>
MulPrograms ==
    {MulProgram(a, op1, b, op2, c) :
        a \in 1..(MaxInt + 1), b \in 1..(MaxInt + 1), c \in 1..(MaxInt + 1),
        op1 \in MulOps, op2 \in MulOps}

\* C16: one program per keyword, written with the English keyword or with
\* the Arabic one (ar): r is 10 from `return 10`, z counts to 2 under
\* `while z < 2`, s sums xs under `for k in xs`, r is `not false`
KeywordProgram(kind, ar) ==
    CASE kind = "return" ->
            << <<"func", "f", "(", ")">>,
               <<IF ar THEN "ar_return" ELSE "return", "10">>,
               <<"end">>,
               <<"let", "r", "=", "f", "(", ")">> >>
      [] kind = "while" ->
            << <<"let", "z", "=", "0">>,
               <<IF ar THEN "ar_while" ELSE "while", "z", "<", "2">>,
               <<"z", "=", "z", "+", "1">>,
               <<"end">> >>
      [] kind = "for" ->
            << <<"let", "s", "=", "0">>,
               <<"let", "xs", "=", "[", "1", ",", "2", "]">>,
               <<IF ar THEN "ar_for" ELSE "for", "k", IF ar THEN "ar_in" ELSE "in", "xs">>,
               <<"s", "=", "s", "+", "k">>,
               <<"end">> >>
      [] kind = "not" ->
            << <<"let", "r", "=", IF ar THEN "ar_not" ELSE "not", "false">> >>
KeywordKinds == {"return", "while", "for", "not"}
KeywordPrograms == {KeywordProgram(kind, ar) : kind \in KeywordKinds, ar \in BOOLEAN}

\* C17: x is 1, a route is defined under `path` with a body that would
\* assign x, print and return, and print(x) follows the route's end
RouteBodies ==
    { << <<"return", "'a'">> >>,
      << <<"x", "=", "2">>, PrintLine("'a'"), <<"return", "x">> >>,
      << <<"if", "true">>, <<"x", "=", "3">>, <<"end">>, <<"let", "y", "=", "x">> >>,
      << <<"func", "h", "(", ")">>, <<"return", "1">>, <<"end">>, <<"h", "(", ")">> >> }
RoutePaths == {"home", "/home", "/"}
RouteProgram(path, body, ar) ==
    << <<"let", "x", "=", "1">>, <<IF ar THEN "ar_route" ELSE "route", path>> >>
    \o body \o << <<IF ar THEN "ar_end" ELSE "end">>, PrintLine("x") >>
RoutePrograms ==
    {RouteProgram(path, body, ar) : path \in RoutePaths, body \in RouteBodies, ar \in BOOLEAN}

\* C19: a block of each kind, with a line after its opener, and the end
\* that closes it present or missing
OpenerLine(kind) ==
    CASE kind = "func" -> <<"func", "f", "(", ")">>
      [] kind = "if" -> <<"if", "true">>
      [] kind = "while" -> <<"while", "z", "<", "1">>
      [] kind = "for" -> <<"for", "k", "in", "xs">>
      [] kind = "route" -> <<"route", "/home">>
BlockKinds == {"func", "if", "while", "for", "route"}
BlockProgram(kind, closed) ==
    << <<"let", "z", "=", "0">>, <<"let", "xs", "=", "[", "1", "]">>,
       OpenerLine(kind), <<"z", "=", "z", "+", "1">> >>
    \o (IF closed THEN << <<"end">> >> ELSE <<>>)
BlockPrograms == {BlockProgram(kind, closed) : kind \in BlockKinds, closed \in BOOLEAN}

\* C20: a program whose line of the kind carries the trailing comment
\* `note` or not: the end of an if block, an else, a break, an assignment
CommentProgram(kind, note) ==
    CASE kind = "end" ->
            << <<"let", "z", "=", "0">>, <<"if", "false">>, <<"z", "=", "1">>,
               <<"end">> \o note, <<"z", "=", "z", "+", "2">> >>
      [] kind = "else" ->
            << <<"let", "z", "=", "0">>, <<"if", "false">>, <<"z", "=", "1">>,
               <<"else">> \o note, <<"z", "=", "2">>, <<"end">> >>
      [] kind = "break" ->
            << <<"let", "z", "=", "0">>, <<"while", "z", "<", "2">>,
               <<"z", "=", "z", "+", "1">>, <<"break">> \o note, <<"end">> >>
      [] kind = "assign" ->
            << <<"let", "z", "=", "0">>, <<"z", "=", "2">> \o note >>
CommentKinds == {"end", "else", "break", "assign"}
Notes == {<<>>, <<"#", "note">>, <<"#", "(", "note", ")">>}
CommentPrograms == {CommentProgram(kind, note) : kind \in CommentKinds, note \in Notes}

\* C21: t is type(v) for a value of each kind, f being a procedure
TypeOperands ==
    {<<"1">>, <<"1", "/", "2">>, <<"'a'">>, <<"[", "1", "]">>,
     <<"{", "'a'", ":", "1", "}">>, <<"true">>, <<"null">>, <<"f">>}
TypeProgram(v) ==
    << <<"func", "f", "(", ")">>, <<"return", "1">>, <<"end">>,
       <<"let", "t", "=", "type", "(">> \o v \o <<")">> >>
TypePrograms == {TypeProgram(v) : v \in TypeOperands}

\* C22: a loop of three rounds (a while over z, or a for that counts its
\* rounds in z) whose body executes `ctl` under a nest of if / else blocks
\* and else adds 1 to n; print(n) follows the loop.  A block of the nest
\* holds its inner lines in its if branch ("if") or, under a condition that
\* is false in every round, in its else branch ("else"); an innermost "if"
\* block tests z == 2, so `ctl` is executed in the second round, an
\* innermost "else" block executes it in every round.
RECURSIVE CtlNested(_, _)
CtlNested(nest, ctl) ==
    LET inner == IF Len(nest) = 1 THEN << <<ctl>> >> ELSE CtlNested(Tail(nest), ctl)
        yes == IF Len(nest) = 1 THEN <<"z", "==", "2">> ELSE <<"true">>
    IN  IF Head(nest) = "if"
        THEN << <<"if">> \o yes >> \o inner \o << <<"end">> >>
        ELSE << <<"if", "false">>, <<"let", "w", "=", "0">>, <<"else">> >>
             \o inner \o << <<"end">> >>
CtlNests == UNION {[1..n -> {"if", "else"}] : n \in 1..MaxNest}
LoopHead(loop) ==
    IF loop = "while" THEN <<"while", "z", "<", "3">>
    ELSE <<"for", "k", "in", "[", "1", ",", "2", ",", "3", "]">>
LoopCtlProgram(loop, ctl, nest) ==
    << <<"let", "z", "=", "0">>, <<"let", "n", "=", "0">>,
       LoopHead(loop), <<"z", "=", "z", "+", "1">> >>
    \o CtlNested(nest, ctl)
    \o << <<"n", "=", "n", "+", "1">>, <<"end">>, PrintLine("n") >>
\* the same loop as the body of an outer while of two rounds (counted in m)
\* that sets z back to 0 before it
NearestLoopProgram(loop, ctl) ==
    << <<"let", "z", "=", "0">>, <<"let", "n", "=", "0">>, <<"let", "m", "=", "0">>,
       <<"while", "m", "<", "2">>, <<"m", "=", "m", "+", "1">>,
       <<"z", "=", "0">>, LoopHead(loop), <<"z", "=", "z", "+", "1">> >>
    \o CtlNested(<<"if">>, ctl)
    \o << <<"n", "=", "n", "+", "1">>, <<"end">>, <<"end">>, PrintLine("n") >>
LoopCtlPrograms ==
    {LoopCtlProgram(loop, ctl, nest) :
        loop \in {"while", "for"}, ctl \in {"break", "continue"}, nest \in CtlNests}
    \cup {NearestLoopProgram(loop, ctl) :
        loop \in {"while", "for"}, ctl \in {"break", "continue"}}

Programs ==
    ChainPrograms \cup ReturnPrograms \cup CapturePrograms \cup LexicalPrograms
    \cup ShadowPrograms \cup AssignPrograms \cup UndefinedPrograms
    \cup TargetPrograms \cup S3Programs \cup LastExprPrograms \cup OtherPrograms
    \cup ShortCircuitPrograms \cup MulPrograms \cup KeywordPrograms \cup RoutePrograms
    \cup BlockPrograms \cup CommentPrograms \cup TypePrograms
    \cup LoopCtlPrograms \cup SignalPrograms

\* what run_file is given: the entry file's name and lines, and the files
\* beside it
Worlds ==
    {[code |-> p, files |-> EmptyMap, file |-> "main.exo"] : p \in Programs}
    \cup ImportWorlds \cup CircularWorlds

-----------------------------------------------------------------------------
(* The state machine: run_file's call run(code, filepath)                  *)
(* (src/main.py:1193), one pass of run's while loop per step.              *)

\* the module-level globals (src/main.py:69-75) as the record the operators thread
St ==
    [scopes |-> scopes, current_scope |-> current_scope, functions |-> functions,
     modules |-> modules, output |-> output, web_routes |-> web_routes,
     call_stack |-> call_stack, err |-> err]

\* CPython's default recursion limit: the interpreter imports sys
\* (src/main.py:13) and never calls sys.setrecursionlimit
sys_getrecursionlimit == 1000

\* nothing was sent yet
NoResponse == [status |-> 0, body |-> ""]

\* the module-level state at the call of run_file, for an entry file of
\* worlds under a Python whose recursion limit is one of limits
Start(worlds, limits) ==
    /\ scopes = <<Scope(0, "global")>>
    /\ current_scope = 1
    /\ functions = EmptyMap
    /\ modules = EmptyMap
    /\ output = <<>>
    /\ web_routes = EmptyMap
    /\ call_stack = <<>>
    /\ err = ""
    /\ \E w \in worlds : code_lines = w.code /\ files = w.files /\ file = w.file
    /\ i = 1
    /\ pc = "run"
    /\ result = Null
    /\ recursion_limit \in limits
    /\ response = NoResponse

Init == Start(Worlds, {sys_getrecursionlimit})

\* the globals after a pass
Globals(st) ==
    /\ scopes' = st.scopes
    /\ current_scope' = st.current_scope
    /\ functions' = st.functions
    /\ modules' = st.modules
    /\ output' = st.output
    /\ web_routes' = st.web_routes
    /\ call_stack' = st.call_stack
    /\ err' = st.err

\* the loop is at a line that takes the branch `kind` of run's if / elif chain
At(kind) ==
    /\ pc = "run"
    /\ i <= Len(code_lines)
    /\ ~Skipped(code_lines[i])
    /\ LineKind(code_lines[i]) = kind

\* the end of a pass, x what the line's branch yields: the ExoError leaves
\* run, the branch returns, or the loop goes on after `i += 1`
Leave(x) ==
    /\ Globals(x.st)
    /\ pc' = IF Failed(x) THEN "raised" ELSE IF x.ret THEN "returned" ELSE "run"
    /\ result' = IF ~Failed(x) /\ x.ret THEN x.v ELSE result
    /\ i' = IF Failed(x) \/ x.ret THEN i ELSE x.i + 1
    /\ UNCHANGED <<files, code_lines, file, recursion_limit, response>>

\* one pass of the loop over the line
Pass == Leave(Call("exec_line", <<code_lines, i, file, St>>))

Declaration == At("declaration") /\ Pass
ReturnStmt == At("return") /\ Pass
BreakStmt == At("break") /\ Pass
ContinueStmt == At("continue") /\ Pass
RouteDef == At("route") /\ Pass
FuncDef == At("func") /\ Pass
IfStmt == At("if") /\ Pass
WhileStmt == At("while") /\ Pass
ForStmt == At("for") /\ Pass
CallStmt == At("call") /\ Pass
Assignment == At("assignment") /\ Pass
Expression == At("expression") /\ Pass

\* a blank line or a comment (src/main.py:829-831)
SkipLine ==
    /\ pc = "run"
    /\ i <= Len(code_lines)
    /\ Skipped(code_lines[i])
    /\ i' = i + 1
    /\ UNCHANGED <<scopes, current_scope, functions, modules, output, web_routes,
                   call_stack, err, files, code_lines, file, pc, result,
                   recursion_limit, response>>

\* the loop ends: return None (src/main.py:1095)
Finish ==
    /\ pc = "run"
    /\ i > Len(code_lines)
    /\ pc' = "returned"
    /\ result' = Null
    /\ UNCHANGED <<scopes, current_scope, functions, modules, output, web_routes,
                   call_stack, err, files, code_lines, file, i,
                   recursion_limit, response>>

Next ==
    \/ Declaration \/ ReturnStmt \/ BreakStmt \/ ContinueStmt \/ RouteDef
    \/ FuncDef \/ IfStmt \/ WhileStmt \/ ForStmt \/ CallStmt \/ Assignment
    \/ Expression \/ SkipLine \/ Finish

Spec == Init /\ [][Next]_vars

-----------------------------------------------------------------------------
(* Unbounded recursion, one step per pass of the run loop of the innermost  *)
(* activation (src/main.py:725-752, 758-773, 1088-1091).  A call of a user  *)
(* procedure from a line of run nests the Python calls of PyChain, the last *)
(* being the run of the body, so that Python's recursion limit bounds the   *)
(* nesting too.  The procedures of RecWorlds call before their body ends    *)
(* and no call returns: pc = "body" while a body runs, i being its line,    *)
(* and "unwinding" while an ExoError travels up through the finally blocks. *)

\* a limit of Python high enough for MAX_RECURSION_DEPTH nested calls
PyRaisedLimit == 10000
PyLimits == {sys_getrecursionlimit, PyRaisedLimit}

\* f calls itself, or g which calls f, with or without a line before the call
RecProgram(before, mutual) ==
    [code |-> << <<"let", "n", "=", "0">>, <<"func", "f", "(", ")">> >>
              \o (IF before THEN << <<"n", "=", "n", "+", "1">> >> ELSE <<>>)
              \o << <<IF mutual THEN "g" ELSE "f", "(", ")">>, <<"end">> >>
              \o (IF mutual THEN << <<"func", "g", "(", ")">>, <<"f", "(", ")">>, <<"end">> >>
                  ELSE <<>>)
              \o << <<"f", "(", ")">> >>,
     files |-> EmptyMap, file |-> "main.exo"]
RecWorlds == {RecProgram(before, mutual) : before \in BOOLEAN, mutual \in BOOLEAN}

\* the Python frames below the top-level run, and those one user call adds:
\* run calls evaluate, down to call_function, which calls run on the body
PyEntry == <<"<module>", "main", "run_file", "run">>
PyChain == <<"evaluate", "eval_arith", "eval_base", "call_function", "run">>
\* the depth of the Python stack in the innermost run, and whether a pass has
\* the frames to evaluate its line
PyDepth == Len(PyEntry) + Len(PyChain) * Len(call_stack)
PyRoom == PyDepth + Len(PyChain) <= recursion_limit

\* the lines the innermost run executes: the scope of a call is named after
\* the procedure (src/main.py:734)
ActiveCode ==
    IF current_scope = 1 THEN code_lines
    ELSE functions[CHOOSE fn \in DOMAIN functions :
                      scopes[current_scope].name = "func:" \o fn].body

\* the innermost run is at a line that is a call of a user procedure
AtUserCall ==
    /\ pc \in {"run", "body"}
    /\ i <= Len(ActiveCode)
    /\ Len(ActiveCode[i]) = 3
    /\ SubSeq(ActiveCode[i], 2, 3) = <<"(", ")">>
    /\ ActiveCode[i][1] \in DOMAIN functions \ get_builtin_functions

\* the state and the position change, nothing else
RecStep(st, at, line) ==
    /\ Globals(st)
    /\ pc' = at
    /\ i' = line
    /\ UNCHANGED <<files, code_lines, file, result, recursion_limit, response>>

\* call_function takes the user-defined branch and the cap allows the call:
\* the frame is pushed, the scope made, and run starts on the body
CallUser ==
    /\ AtUserCall
    /\ PyRoom
    /\ Len(call_stack) + 1 <= MAX_RECURSION_DEPTH
    /\ RecStep(call_bound(ActiveCode[i][1], <<>>, functions[ActiveCode[i][1]], St,
                          call_pushed(ActiveCode[i][1], <<>>, St)), "body", 1)

\* the pushed frame exceeds the cap: error(...) before the try, so that no
\* finally pops this frame (src/main.py:728-731)
DepthExceeded ==
    /\ AtUserCall
    /\ PyRoom
    /\ Len(call_stack) + 1 > MAX_RECURSION_DEPTH
    /\ RecStep(error(call_pushed(ActiveCode[i][1], <<>>, St),
                     "Recursion depth exceeded").st, "unwinding", i)

\* a line of a body that is no call
BodyPass ==
    /\ pc = "body"
    /\ i <= Len(ActiveCode)
    /\ LineKind(ActiveCode[i]) \in {"assignment", "declaration"}
    /\ PyRoom
    /\ LET x == Call("exec_line", <<ActiveCode, i, file, St>>)
       IN  RecStep(x.st, IF Failed(x) THEN "unwinding" ELSE "body", x.i + 1)

\* Python raises RecursionError in the pass; an `except Exception` of
\* evaluate or of run turns it into an ExoError (src/main.py:772-773,
\* 1090-1091), and the frames pushed by then are popped on the way
PyRecursionError ==
    /\ pc \in {"run", "body"}
    /\ i <= Len(ActiveCode)
    /\ ~PyRoom
    /\ \E msg \in {"Evaluation error", "Unexpected error"} :
          RecStep(error(St, msg).st, "unwinding", i)

\* the ExoError leaves a call: finally current_scope = old_scope, finally
\* call_stack.pop() (src/main.py:748-752).  The caller's scope is the one made
\* just before the callee's, every scope here being made by a call.
Unwind ==
    /\ pc = "unwinding"
    /\ current_scope # 1
    /\ RecStep([St EXCEPT !.current_scope = current_scope - 1,
                          !.call_stack = SubSeq(@, 1, Len(@) - 1)], "unwinding", i)

\* the ExoError leaves the top-level run
Raised ==
    /\ pc = "unwinding"
    /\ current_scope = 1
    /\ RecStep(St, "raised", i)

InitRec == Start(RecWorlds, PyLimits)

NextRec ==
    \/ Declaration \/ FuncDef \/ CallUser \/ DepthExceeded \/ BodyPass
    \/ PyRecursionError \/ Unwind \/ Raised

SpecRec == InitRec /\ [][NextRec]_vars

-----------------------------------------------------------------------------
(* The web server: after run_file has run the entry file and routes are     *)
(* registered, start_web_server serves GET requests one at a time           *)
(* (src/main.py:1115-1177, 1195-1197).                                      *)

\* how many requests for a route a behaviour serves
MaxRequests == 2

\* the page do_GET sends for a falsy result (src/main.py:1148), its check mark left out
DefaultPage == "<!DOCTYPE html><html><body><h1>EXO</h1></body></html>"

\* a route /home whose body yields `v`: by a return, by a return of a
\* declared name, or printed with nothing returned
WebValues ==
    {<<"''">>, <<"0">>, <<"false">>, <<"[", "]">>, <<"null">>, <<"'a'">>, <<"1">>, <<"zz">>}
WebProgram(v, form) ==
    [code |-> << <<"let", "x", "=", "0">>, <<"route", "/home">> >>
              \o (CASE form = "return" -> << <<"return">> \o v >>
                    [] form = "let" -> << <<"let", "y", "=">> \o v, <<"return", "y">> >>
                    [] form = "print" -> << <<"print", "(">> \o v \o <<")">> >>)
              \o << <<"end">> >>,
     files |-> EmptyMap, file |-> "main.exo"]
WebForms == {"return", "let", "print"}

\* C25: a route /home whose body imports A and returns the x of its exports,
\* and the module A beside it, whose body exports x, raises at the line
\* `fail`, and would export y
FailLines == {<<"let", "q", "=", "zz">>, <<"let", "q", "=", "1", "/", "0">>, <<"end">>}
FailingImport(fail) ==
    [code |-> << <<"let", "x", "=", "0">>, <<"route", "/home">>,
                 <<"let", "a", "=", "import", "(", "'A'", ")">>,
                 <<"return", "a", ".", "x">>, <<"end">> >>,
     files |-> [n \in {"route:/A.exo"} |->
                  ModuleA \o <<fail, <<"export", "(", "'y'", ",", "2", ")">> >>],
     file |-> "main.exo"]
FailingImports == {FailingImport(fail) : fail \in FailLines}

WebWorlds ==
    {WebProgram(v, form) : v \in WebValues, form \in WebForms} \cup FailingImports

\* do_GET (src/main.py:1115-1162) for the path of a request without a query:
\* the state it leaves and what it sends
do_GET(path, st) ==
    LET request == DictV(<< <<StrV("path"), StrV(path)>>,
                            <<StrV("query"), DictV(<<>>)>>,
                            <<StrV("method"), StrV("GET")>> >>)
        scoped == [st EXCEPT
                     !.scopes = Scope_set(Append(@, Scope(1, "request:" \o path)),
                                          Len(st.scopes) + 1, "request", request, TRUE),
                     !.current_scope = Len(st.scopes) + 1]
        r == Call("run", <<st.web_routes[path], "route:" \o path, scoped>>)
        \* finally: current_scope = old_scope; the ExoError ends in the handler
        after == [r.st EXCEPT !.current_scope = st.current_scope, !.err = ""]
    IN  CASE path = "/favicon.ico" -> [st |-> st, sent |-> [status |-> 204, body |-> ""]]
          \* the page of the 404 lists the routes after its heading; the list is left out
          [] path \notin DOMAIN st.web_routes ->
                [st |-> st, sent |-> [status |-> 404, body |-> "<h1>404</h1>"]]
          [] Failed(r) ->
                [st |-> after,
                 sent |-> [status |-> 500, body |-> "<pre>" \o r.st.err \o "</pre>"]]
          \* if not result: result = <the default page>
          [] ~Truthy(r.v) -> [st |-> after, sent |-> [status |-> 200, body |-> DefaultPage]]
          [] OTHER -> [st |-> after, sent |-> [status |-> 200, body |-> PyStr(r.v)]]

\* the requests for a route served so far: each made its scope
Served ==
    Cardinality({k \in 1..Len(scopes) :
                    scopes[k].name \in {"request:" \o p : p \in DOMAIN web_routes}})

\* the server handles one GET request
DoGet ==
    /\ pc = "returned"
    /\ web_routes # EmptyMap
    /\ Served < MaxRequests
    /\ \E path \in DOMAIN web_routes \cup {"/missing", "/favicon.ico"} :
          /\ Globals(do_GET(path, St).st)
          /\ response' = do_GET(path, St).sent
    /\ UNCHANGED <<files, code_lines, file, i, pc, result, recursion_limit>>

InitWeb == Start(WebWorlds, {sys_getrecursionlimit})

NextWeb == Declaration \/ RouteDef \/ Finish \/ DoGet

SpecWeb == InitWeb /\ [][NextWeb]_vars


-----------------------------------------------------------------------------
(* Properties.  A program of a family has run to its end when pc is not    *)
(* "run": run has returned, or an ExoError has left it.                    *)

\* the global scope binds name to v
Bound(name, v) == name \in DOMAIN scopes[1].vars /\ scopes[1].vars[name] = v

\* the scope chain of s, nearest first
RECURSIVE ChainOf(_, _)
ChainOf(sc, s) == IF s = 0 THEN <<>> ELSE <<s>> \o ChainOf(sc, sc[s].parent)

\* the nearest scope of the chain of s that defines name
Nearest(sc, s, name) ==
    LET c == ChainOf(sc, s)
    IN  c[CHOOSE k \in 1..Len(c) :
            /\ name \in DOMAIN sc[c[k]].vars
            /\ \A j \in 1..(k - 1) : name \notin DOMAIN sc[c[j]].vars]

Names == {"x", "r", "v", "w", "z"}

\* what a chain prints when exactly the first true branch runs, the else
\* body runs when no condition is true, and print(0) follows the chain
ChainOutput(cs, els) ==
    (IF \E k \in 1..Len(cs) : cs[k] = "true"
     THEN <<Lit(CHOOSE k \in 1..Len(cs) :
                    cs[k] = "true" /\ \A j \in 1..(k - 1) : cs[j] # "true")>>
     ELSE IF els THEN <<Lit(Len(cs) + 1)>> ELSE <<>>)
    \o <<"0">>

\* C1: for every if / else-if / else chain, at the top level or in a
\* procedure body, exactly the body of the first true branch executes, the
\* else body executes only when no condition was true, and execution resumes
\* at the statement after the chain's closing `end`.
C1_ExactlyOneBody ==
    \A cs \in Chains, els \in BOOLEAN, infunc \in BOOLEAN :
        (code_lines = ChainProgram(cs, els, infunc) /\ pc # "run")
            => (pc = "returned" /\ output = ChainOutput(cs, els))

\* the value a literal of ReturnValues denotes
ReturnValue(tok) ==
    CASE tok = "1" -> IntV(1) [] tok = "0" -> IntV(0) [] tok = "false" -> BoolV(FALSE)
      [] tok = "null" -> Null [] tok = "'a'" -> StrV("a")

\* C2: a return statement at any nesting depth of if / while / for blocks
\* ends the procedure call with the returned value, Null included: the call
\* yields that value and print('after'), the statement after the blocks,
\* does not execute.
C2_ReturnEndsTheCall ==
    \A nest \in Nests, v \in ReturnValues :
        (code_lines = ReturnProgram(nest, v) /\ pc # "run")
            => (pc = "returned" /\ output = <<>> /\ Bound("r", ReturnValue(v)))

\* C3: a procedure captures its definition scope by alias: when x changes
\* from a to b in the scope where g was defined, after g's definition, by an
\* assignment or a declaration, the next call of g reads b; and the scope a
\* procedure holds is a node of the scope arena.
C3_CaptureByAlias ==
    /\ \A fn \in DOMAIN functions : functions[fn].def_scope \in 1..Len(scopes)
    /\ \A a \in 0..MaxInt, b \in 0..MaxInt, how \in {"assign", "let", "var"},
          place \in {"global", "local", "late"} :
        (code_lines = CaptureProgram(a, b, how, place) /\ pc # "run")
            => (pc = "returned" /\ Bound("r", IntV(b)))

C3_Witness ==
    \E a \in 0..MaxInt, b \in 0..MaxInt :
        /\ a # b
        /\ code_lines = CaptureProgram(a, b, "assign", "late")
        /\ pc = "returned"
        /\ Bound("r", IntV(b))

\* C4: a call runs the body in a fresh scope whose parent is the scope
\* current at the procedure's definition, never the caller's: callee reads
\* the global v, not the v of caller, and w, declared in caller only, is not
\* visible in callee.
C4_LexicalParent ==
    \A a \in 0..MaxInt, b \in 0..MaxInt :
        /\ (code_lines = LexicalProgram(a, b, "v") /\ pc # "run")
              => /\ pc = "returned"
                 /\ Bound("r", IntV(a))
                 /\ \A k \in 2..Len(scopes) : scopes[k].parent = 1
        /\ (code_lines = LexicalProgram(a, b, "w") /\ pc # "run")
              => (pc = "raised" /\ "r" \notin DOMAIN scopes[1].vars)

C4_Witness ==
    \E a \in 0..MaxInt, b \in 0..MaxInt :
        /\ a # b
        /\ code_lines = LexicalProgram(a, b, "v")
        /\ pc = "returned"
        /\ Len(scopes) = 3
        /\ Bound("r", IntV(a))

\* C5: a declaration writes only into the scope it runs in: no other scope
\* node changes, so after `let x = a` a call of g, whose body declares x = b,
\* leaves the global x equal to a.
C5_DeclarationShadows ==
    /\ \A s \in 1..Len(scopes), name \in Names :
          LET set == Scope_set(scopes, s, name, IntV(9), TRUE)
          IN  /\ Len(set) = Len(scopes)
              /\ \A j \in 1..Len(scopes) :
                    set[j] = IF j = s THEN [scopes[j] EXCEPT !.vars = Put(@, name, IntV(9))]
                             ELSE scopes[j]
    /\ \A a \in 0..MaxInt, b \in 0..MaxInt, kw \in {"let", "var", "const"} :
          (code_lines = ShadowProgram(a, b, kw) /\ pc # "run")
              => /\ pc = "returned"
                 /\ Bound("x", IntV(a))
                 /\ Bound("r", IntV(b))
                 /\ scopes[2].vars = ("x" :> IntV(b))

C5_Witness ==
    \E a \in 0..MaxInt, b \in 0..MaxInt :
        /\ a # b
        /\ code_lines = ShadowProgram(a, b, "let")
        /\ pc = "returned"
        /\ Bound("x", IntV(a))
        /\ scopes[2].vars = ("x" :> IntV(b))

\* C6: a plain assignment to a name the scope chain resolves writes the
\* value into the nearest scope node that defines the name and into no other
\* node: inner's `x = b` changes the x of the global scope, of outer or of
\* inner, whichever is nearest, and creates no binding anywhere else.
C6_AssignmentWritesNearest ==
    /\ \A s \in 1..Len(scopes), name \in Names :
          Scope_exists(scopes, s, name)
              => LET set == Scope_set(scopes, s, name, IntV(9), FALSE)
                 IN  /\ Len(set) = Len(scopes)
                     /\ \A j \in 1..Len(scopes) :
                           set[j] = IF j = Nearest(scopes, s, name)
                                    THEN [scopes[j] EXCEPT !.vars[name] = IntV(9)]
                                    ELSE scopes[j]
    /\ \A a \in 0..MaxInt, b \in 0..MaxInt, level \in {"global", "outer", "inner"} :
          (code_lines = AssignProgram(a, b, level) /\ pc # "run")
              => /\ pc = "returned"
                 /\ scopes[1].vars = ("x" :> IntV(IF level = "global" THEN b ELSE a))
                 /\ scopes[2].vars =
                       IF level = "global" THEN EmptyMap
                       ELSE ("x" :> IntV(IF level = "outer" THEN b ELSE a))
                 /\ scopes[3].vars = IF level = "inner" THEN ("x" :> IntV(b)) ELSE EmptyMap

C6_Witness ==
    \E a \in 0..MaxInt, b \in 0..MaxInt :
        /\ a # b
        /\ code_lines = AssignProgram(a, b, "outer")
        /\ pc = "returned"
        /\ Len(scopes) = 3
        /\ scopes[2].vars = ("x" :> IntV(b))
        /\ scopes[3].vars = EmptyMap

C8_EveryTargetIsAssigned ==
    \A form \in TargetForms, a \in 0..MaxInt, b \in 0..MaxInt :
        (code_lines = TargetProgram(form, a, b) /\ pc # "run")
            => /\ pc = "returned"
               /\ CASE form = "call" -> Bound("x", IntV(a))
                    [] form = "paren" -> Bound("x", IntV((a + b) * 2))
                    [] form = "plain" -> Bound("x", IntV(a + b))
                    [] form = "index" -> Bound("xs", ListV(<<IntV(a)>>))
                    [] form = "path" ->
                         Bound("m", DictV(<< <<StrV("a"), IntV(a + b)>> >>))

\* C9: procedures are first-class values: make returns inner by name, f is
\* bound to it and called, and the call reads the captured parameter, so
\* scenario S3 prints its number, 7.
C9_FirstClassProcedures ==
    \A n \in (0..MaxInt) \cup {7} :
        (code_lines = S3(n) /\ pc # "run")
            => (pc = "returned" /\ output = <<Lit(n)>>)

\* C10: a body with no return statement whose last line is a bare expression
\* yields that expression's value to the caller, and the value of a bare
\* expression at the top level is discarded.
C10_LastExpressionReturned ==
    \A a \in 0..MaxInt, b \in 0..MaxInt :
        (code_lines = LastExprProgram(a, b) /\ pc # "run")
            => /\ pc = "returned"
               /\ Bound("r", IntV(a + b))
               /\ output = <<>>
               /\ result = Null

\* how many times print wrote the line s
Printed(s) == Cardinality({k \in 1..Len(output) : output[k] = s})

\* C11: import is idempotent per module file: when the entry file imports
\* A.exo twice, directly under two spellings or once directly and once
\* through B, A's body executes exactly once ('A' is printed once), and the
\* two direct imports yield the same exports map object.
C11_ImportedOnce ==
    \A p \in Spellings, q \in Spellings, through \in BOOLEAN :
        (/\ code_lines = ImportTwice(p, q, through).code
         /\ files = ImportTwice(p, q, through).files
         /\ pc # "run")
            => /\ pc = "returned"
               /\ Printed("A") = 1
               /\ ~through => scopes[1].vars["a"].s = scopes[1].vars["b"].s

\* C12: a circular import terminates: A prints 'A', exports x and imports B,
\* and B prints 'B' and imports A while A is still executing.  The inner
\* import does not run A's body again ('A' is printed once) and yields A's
\* exports map holding exactly the one name exported so far (B prints 1
\* after 'B'), and both imports complete.
C12_CircularImport ==
    \A w \in CircularWorlds :
        (code_lines = w.code /\ files = w.files /\ file = w.file /\ pc # "run")
            => /\ pc = "returned"
               /\ Printed("A") = 1
               /\ Printed("B") = 1
               /\ SubSeq(output, 1, 3) = <<"A", "B", "1">>

\* C13: the call stack never holds more than MAX_RECURSION_DEPTH frames while
\* a body executes, and a procedure that calls itself (or through g) with no
\* base case fails with the recursion-depth error when the nesting reaches
\* MAX_RECURSION_DEPTH, give or take one: that many bodies were started (one
\* scope each), and the body of the frame over the cap never runs.
C13_RecursionCap ==
    \A w \in RecWorlds :
        code_lines = w.code =>
            /\ pc = "body" => Len(call_stack) <= MAX_RECURSION_DEPTH
            /\ pc = "raised" =>
                  /\ err = "Recursion depth exceeded"
                  /\ Len(scopes) - 1 \in
                        (MAX_RECURSION_DEPTH - 1)..(MAX_RECURSION_DEPTH + 1)

\* C14: `and` and `or`, in each spelling, short-circuit left to right: when
\* the left operand of `and` is falsy or that of `or` is truthy, the right
\* operand is not evaluated: no error is raised, bump() is not called (n
\* stays 0) and r is the boolean the left operand decides.  Otherwise the
\* right operand is evaluated once: bump() makes n 1, 1/0 and zz raise.
C14_ShortCircuit ==
    \A left \in {"true", "false", "0", "1"}, op \in SpacedOps, right \in RightOperands :
        (code_lines = ShortCircuitProgram(left, op, right) /\ pc # "run") =>
            IF (left \in {"true", "1"}) = (op \in {"or", "ar_or", "||"})
            THEN /\ pc = "returned"
                 /\ err = ""
                 /\ Bound("n", IntV(0))
                 /\ Bound("r", BoolV(left \in {"true", "1"}))
            ELSE IF right = <<"bump", "(", ")">>
                 THEN pc = "returned" /\ Bound("n", IntV(1)) /\ Bound("r", BoolV(TRUE))
                 ELSE pc = "raised"

C14_Witness ==
    /\ code_lines \in {ShortCircuitProgram("false", "and", <<"(", "1", "/", "0", ")">>),
                       ShortCircuitProgram("true", "or", <<"(", "1", "/", "0", ")">>)}
    /\ pc = "returned"
    /\ err = ""
    /\ "r" \in DOMAIN scopes[1].vars

\* C15: `*`, `/` and `%` are one precedence level, left-associative: for
\* non-zero integer operands `a op1 b op2 c` is `(a op1 b) op2 c`.
C15_LeftAssociative ==
    \A a \in 1..(MaxInt + 1), b \in 1..(MaxInt + 1), c \in 1..(MaxInt + 1),
       op1 \in MulOps, op2 \in MulOps :
        (code_lines = MulProgram(a, op1, b, op2, c) /\ pc # "run")
            => /\ pc = "returned"
               /\ Bound("r", PyBin(op2, PyBin(op1, IntV(a), IntV(b)).v, IntV(c)).v)

\* what the program of a keyword leaves in the global scope
KeywordResult(kind) ==
    CASE kind = "return" -> Bound("r", IntV(10))
      [] kind = "while" -> Bound("z", IntV(2))
      [] kind = "for" -> Bound("s", IntV(3))
      [] kind = "not" -> Bound("r", BoolV(TRUE))

\* C16: the Arabic form of return, while, for and not behaves as the English
\* one: the whole operand text reaches the evaluator, no character dropped,
\* and the program written with either keyword ends with the same result.
C16_ArabicAsEnglish ==
    \A kind \in KeywordKinds, ar \in BOOLEAN :
        (code_lines = KeywordProgram(kind, ar) /\ pc # "run")
            => (pc = "returned" /\ KeywordResult(kind))

\* C17: a route definition only registers: the body lines up to the matching
\* end are stored under the path, with a leading `/` added when missing, no
\* line of the body is executed (nothing is printed, no procedure defined),
\* no binding changes (x stays 1, no name is added, no scope made), and
\* execution continues after the route's end, where print(x) prints 1.
C17_RouteOnlyRegisters ==
    \A path \in RoutePaths, body \in RouteBodies, ar \in BOOLEAN :
        (code_lines = RouteProgram(path, body, ar) /\ pc # "run")
            => /\ pc = "returned"
               /\ web_routes = Put(EmptyMap, IF path = "home" THEN "/home" ELSE path, body)
               /\ output = <<"1">>
               /\ scopes = <<[Scope(0, "global") EXCEPT !.vars = Put(EmptyMap, "x", IntV(1))]>>
               /\ functions = EmptyMap

C17_Witness ==
    \E body \in RouteBodies :
        /\ Len(body) > 1
        /\ code_lines = RouteProgram("home", body, FALSE)
        /\ pc = "returned"
        /\ web_routes = Put(EmptyMap, "/home", body)
        /\ output = <<"1">>

\* the text of the value a literal of WebValues denotes
WebText(v) ==
    CASE v = <<"''">> -> "" [] v = <<"0">> -> "0" [] v = <<"false">> -> "False"
      [] v = <<"[", "]">> -> "[]" [] v = <<"'a'">> -> "a" [] v = <<"1">> -> "1"

\* C18: the body of the response to a request for a route is the text of the
\* value the route body returned, and the default page is sent only when
\* that value is Null (null returned, or nothing returned): a returned empty
\* string, 0, false or empty list is sent as it is.
C18_ResponseIsReturnedText ==
    \A v \in WebValues \ {<<"zz">>}, form \in WebForms :
        (code_lines = WebProgram(v, form).code /\ response.status = 200)
            => response.body = IF form = "print" \/ v = <<"null">> THEN DefaultPage
                               ELSE WebText(v)

\* C19: a block opener (func, if, while, for, route) whose matching end is
\* missing before the end of the source raises an ExoError: the run never
\* takes the remaining lines as the block's body and ends without error.
\* With the end present the run ends without error.
C19_MissingEndRaises ==
    \A kind \in BlockKinds, closed \in BOOLEAN :
        (code_lines = BlockProgram(kind, closed) /\ pc # "run")
            => (pc = IF closed THEN "returned" ELSE "raised")

\* C20: a trailing `#` comment is stripped from a line before the run
\* dispatches on it or matches block structure: the program with `end`,
\* `else`, `break` or an assignment followed by a comment ends as the
\* program without the comment does, z being 2 for `end`, `else` and the
\* assignment and 1 for `break`.
C20_TrailingCommentStripped ==
    \A kind \in CommentKinds, note \in Notes :
        (code_lines = CommentProgram(kind, note) /\ pc # "run")
            => /\ pc = "returned"
               /\ Bound("z", IntV(IF kind = "break" THEN 1 ELSE 2))

\* the tag of the value an operand of TypeOperands denotes
TypeTag(v) ==
    CASE v = <<"1">> -> "int" [] v = <<"1", "/", "2">> -> "float"
      [] v = <<"'a'">> -> "str" [] v = <<"[", "1", "]">> -> "list"
      [] v = <<"{", "'a'", ":", "1", "}">> -> "map" [] v = <<"true">> -> "bool"
      [] v = <<"null">> -> "null" [] v = <<"f">> -> "procedure"

\* C21: type yields, for every value, one of the tags int, float, str, list,
\* map, bool, null, procedure: map for a keyed map, null for the null value,
\* procedure for a user procedure.
C21_TypeTags ==
    \A v \in TypeOperands :
        (code_lines = TypeProgram(v) /\ pc # "run")
            => (pc = "returned" /\ Bound("t", StrV(TypeTag(v))))

\* C22: a break or continue under any nest of if / else blocks in a loop
\* body reaches the nearest enclosing while or for: the rest of the round is
\* skipped (n is not counted in a round that executes it), break ends the
\* loop there and continue goes on with the next round (z counts the rounds
\* begun, n the rounds completed), print(n) after the loop's end runs, and a
\* loop around the nearest one goes on with its own rounds (m = 2, and n
\* counts the completed inner rounds of both outer rounds).
CtlRounds(ctl, nest) ==
    IF nest[Len(nest)] = "if"
    THEN IF ctl = "break" THEN <<2, 1>> ELSE <<3, 2>>
    ELSE IF ctl = "break" THEN <<1, 0>> ELSE <<3, 0>>
C22_LoopControlReachesLoop ==
    /\ \A loop \in {"while", "for"}, ctl \in {"break", "continue"}, nest \in CtlNests :
          (code_lines = LoopCtlProgram(loop, ctl, nest) /\ pc # "run")
          => /\ pc = "returned"
             /\ Bound("z", IntV(CtlRounds(ctl, nest)[1]))
             /\ Bound("n", IntV(CtlRounds(ctl, nest)[2]))
             /\ output = <<IF CtlRounds(ctl, nest)[2] = 0 THEN "0"
                           ELSE IF CtlRounds(ctl, nest)[2] = 1 THEN "1" ELSE "2">>
    /\ \A loop \in {"while", "for"}, ctl \in {"break", "continue"} :
          (code_lines = NearestLoopProgram(loop, ctl) /\ pc # "run")
          => /\ pc = "returned"
             /\ Bound("m", IntV(2))
             /\ Bound("z", IntV(IF ctl = "break" THEN 2 ELSE 3))
             /\ Bound("n", IntV(IF ctl = "break" THEN 2 ELSE 4))
             /\ output = <<IF ctl = "break" THEN "2" ELSE "4">>
\* a break under MaxNest blocks, the outermost an else branch, the innermost
\* an if, has ended its for loop in the second round
C22_Witness ==
    \E nest \in CtlNests :
        /\ Len(nest) = MaxNest /\ nest[1] = "else" /\ nest[Len(nest)] = "if"
        /\ code_lines = LoopCtlProgram("for", "break", nest)
        /\ pc = "returned"
        /\ Bound("z", IntV(2)) /\ Bound("n", IntV(1))
        /\ output = <<"1">>


\* C23: a call of a user procedure leaves call_stack and current_scope as
\* they were before it, however it ends: once the error of a run of nested
\* calls has left the outermost call and the top-level run, no frame is on
\* call_stack and the current scope is the global scope again, as before
\* the outermost call.
C23_CallRestoresStackAndScope ==
    pc = "raised" => call_stack = <<>> /\ current_scope = 1


\* C24: a return statement whose value is the string "break" or "continue",
\* executed inside a while or for body of a procedure, ends the call with
\* that string as its value and is no break or continue of the loop: the
\* caller binds the string and print('after'), the statement after the
\* loop, does not execute.
C24_ReturnedStringIsNoSignal ==
    \A nest \in SignalNests, v \in {"'break'", "'continue'"} :
        (code_lines = ReturnProgram(nest, v) /\ pc # "run")
            => /\ pc = "returned"
               /\ output = <<>>
               /\ Bound("r", StrV(StrText(v)))


\* C25: a module whose body raises during its first load is not recorded as
\* loaded: while the route /home imports the failing module A, no request
\* leaves an entry in the module cache, and every request for the route
\* runs A's body again ('A' is printed once per request) and fails again
\* with the status 500, none being answered from a partly filled exports map.
C25_FailedImportNotCached ==
    \A fail \in FailLines :
        (code_lines = FailingImport(fail).code /\ files = FailingImport(fail).files)
            => /\ modules = EmptyMap
               /\ response.status # 200
               /\ Printed("A") = Served

=============================================================================
